---- MODULE Spec2Model ----
(***************************************************************************)
(* A model of the fancytiles layout tree (LayoutNode) and of the editing   *)
(* operations that act on it (ResizeOperation, PreviewSplitOperation,     *)
(* SnappingOperation, MarginsOperation, PresetShortcutOperation).          *)
(*                                                                         *)
(* A tree is a value: a node is a record whose `children` field is the     *)
(* sequence of its child records; a node of the tree is addressed by its   *)
(* path, the sequence of child indices leading to it from the root.        *)
(*                                                                         *)
(* Percentages are JavaScript numbers in the source.  Here a percentage p  *)
(* is the integer p * PctDen; the two infinities are two integers beyond   *)
(* every finite percentage.  All arithmetic on percentages is exact.       *)
(***************************************************************************)
EXTENDS Integers, Sequences, FiniteSets, TLC

\* ------------------------------------------------------------------------
\* Numbers

\* the unit of a percentage: 1/PctDen.  For a pointer on the 50 x 40 pixel
\* grid of a 1000 x 800 work area x/1000 and y/800 are multiples of 1/20,
\* p * 0.95 is then a multiple of 1/400, and the presets use thirds.
PctDen == 3 * 400

AxisX == 0
AxisY == 1

LastNodeXPercentage == 2000000000
LastNodeYPercentage == -2000000000
LastNodePercentages == <<LastNodeXPercentage, LastNodeYPercentage>>

LastNodeXPercentageJson == 99999 * PctDen
LastNodeYPercentageJson == -(99999 * PctDen)

\* the value of a field that was never assigned (JavaScript undefined);
\* undefined compares false with every number
Undefined == 2000000001

Abs(n) == IF n < 0 THEN -n ELSE n
Max(a, b) == IF a >= b THEN a ELSE b
Min(a, b) == IF a <= b THEN a ELSE b

IsInfinite(p) == p = LastNodeXPercentage \/ p = LastNodeYPercentage

\* percentage * 0.95
WigglePercentage(p) == IF IsInfinite(p) THEN p ELSE (p * 19) \div 20

\* ------------------------------------------------------------------------
\* LayoutNode

NoRect == [x |-> 0, y |-> 0, width |-> 0, height |-> 0]

Rect(x, y, width, height) == [x |-> x, y |-> y, width |-> width, height |-> height]

\* the `parent` field names the object the reference points to:
\*   "null"     no parent
\*   "owner"    the node whose children list holds this node
\*   "snapshot" a detached clone root: the node was created by clone() as a
\*              child of a snapshot, and revert() then handed the snapshot's
\*              children array to the tree's root
NewNode(percentage) ==
    [percentage |-> percentage,
     parent |-> "null",
     children |-> <<>>,
     rect |-> NoRect,
     isResizing |-> FALSE,
     isPreview |-> FALSE,
     isHighlighted |-> FALSE,
     originalRect |-> <<>>,
     isSnappingDestination |-> FALSE,
     margin |-> 0]

isLeaf(n) == Len(n.children) = 0

isRoot(n) == n.parent = "null"

isRow(n) == n.percentage # Undefined /\ n.percentage <= 0

isColumn(n) == n.percentage # Undefined /\ n.percentage >= 0

axis(n) == IF isColumn(n) THEN AxisX ELSE AxisY

\* constructor(percentage, children) that leaves the percentage of the
\* last child as given
LayoutNodeAsGiven(percentage, children) ==
    [NewNode(percentage) EXCEPT
        !.children = [i \in DOMAIN children |-> [children[i] EXCEPT !.parent = "owner"]]]

\* constructor(percentage, children)
LayoutNode(percentage, children) ==
    LET owned == [i \in DOMAIN children |-> [children[i] EXCEPT !.parent = "owner"]]
        filler == IF Len(owned) >= 2
                  THEN IF axis(owned[1]) = AxisX THEN LastNodeXPercentage
                                                 ELSE LastNodeYPercentage
                  ELSE 0
    IN [NewNode(percentage) EXCEPT
          !.children = IF Len(owned) >= 2
                       THEN [owned EXCEPT ![Len(owned)].percentage = filler]
                       ELSE owned]

RECURSIVE clone(_)
clone(n) ==
    LET c == LayoutNode(n.percentage, [i \in DOMAIN n.children |-> clone(n.children[i])])
    IN [c EXCEPT !.rect = n.rect,
                 !.isResizing = n.isResizing,
                 !.isPreview = n.isPreview,
                 !.margin = n.margin]

\* this.revert(snapshotRootNode): the children array of the snapshot becomes
\* the children array of `n`; the children keep the snapshot as their parent
revert(n, snapshotRootNode) ==
    [n EXCEPT !.percentage = snapshotRootNode.percentage,
              !.rect = snapshotRootNode.rect,
              !.isResizing = snapshotRootNode.isResizing,
              !.isPreview = snapshotRootNode.isPreview,
              !.margin = snapshotRootNode.margin,
              !.children = [i \in DOMAIN snapshotRootNode.children |->
                              [snapshotRootNode.children[i] EXCEPT !.parent = "snapshot"]]]

\* snapRect() that shrinks the rectangle by the margin once
snapRectShrunkOnce(n) ==
    Rect(n.rect.x + n.margin, n.rect.y + n.margin,
         n.rect.width - n.margin, n.rect.height - n.margin)

snapRect(n) ==
    Rect(n.rect.x + n.margin, n.rect.y + n.margin,
         n.rect.width - n.margin * 2, n.rect.height - n.margin * 2)

\* ------------------------------------------------------------------------
\* Paths

NoPath == <<0>>

RECURSIVE GetNode(_, _)
GetNode(t, p) == IF p = <<>> THEN t ELSE GetNode(t.children[Head(p)], Tail(p))

RECURSIVE SetNode(_, _, _)
SetNode(t, p, n) ==
    IF p = <<>> THEN n
    ELSE [t EXCEPT !.children[Head(p)] = SetNode(t.children[Head(p)], Tail(p), n)]

RECURSIVE ConcatAll(_)
ConcatAll(ss) == IF ss = <<>> THEN <<>> ELSE Head(ss) \o ConcatAll(Tail(ss))

\* the paths of a node and its descendants, in the order forSelfAndDescendants
\* and findNode visit them (pre-order)
RECURSIVE PreOrderFrom(_, _)
PreOrderFrom(n, p) ==
    <<p>> \o ConcatAll([i \in DOMAIN n.children |->
                          PreOrderFrom(n.children[i], Append(p, i))])

PreOrder(t) == PreOrderFrom(t, <<>>)

Paths(t) == {PreOrder(t)[i] : i \in DOMAIN PreOrder(t)}

Nodes(t) == {GetNode(t, p) : p \in Paths(t)}

SetMin(S) == CHOOSE m \in S : \A k \in S : m <= k

\* the first path, in pre-order, whose node satisfies P; NoPath when none
FirstPath(t, P(_)) ==
    LET ps == PreOrder(t)
        hits == {i \in DOMAIN ps : P(GetNode(t, ps[i]))}
    IN IF hits = {} THEN NoPath ELSE ps[SetMin(hits)]

\* findNode(predicate)
findNode(t, predicate(_)) == FirstPath(t, predicate)

\* forSelfAndDescendants(func): func is applied to the node and to every
\* descendant, in pre-order (no func of the source changes `children`)
forSelfAndDescendants(n, func(_)) ==
    LET ps == PreOrder(n)
        RECURSIVE visit(_, _)
        visit(t, i) == IF i > Len(ps) THEN t
                       ELSE visit(SetNode(t, ps[i], func(GetNode(t, ps[i]))), i + 1)
    IN visit(n, 1)

\* forDescendants(func)
forDescendants(n, func(_)) ==
    LET ps == PreOrder(n)
        RECURSIVE visit(_, _)
        visit(t, i) == IF i > Len(ps) THEN t
                       ELSE visit(SetNode(t, ps[i], func(GetNode(t, ps[i]))), i + 1)
    IN visit(n, 2)

\* ------------------------------------------------------------------------
\* Integrity

\* getIntegrityError() == null.  (undefined is neither null, < -1 nor > 1.)
PercentageInRange(p) == p = Undefined \/ (p >= -PctDen /\ p <= PctDen)

RECURSIVE IntegrityOk(_)
IntegrityOk(n) ==
    /\ Len(n.children) # 1
    /\ \A i \in 1..(Len(n.children) - 1) : PercentageInRange(n.children[i].percentage)
    /\ Len(n.children) >= 1 => IsInfinite(n.children[Len(n.children)].percentage)
    /\ \A i \in DOMAIN n.children : IntegrityOk(n.children[i])

\* ------------------------------------------------------------------------
\* Geometry

\* the rounding with a tie rounded down
RoundedLengthTiesDown(screenLength, percentage) ==
    IF IsInfinite(percentage) THEN LastNodeXPercentage
    ELSE ((Abs(screenLength * percentage) + 5 * PctDen - 1) \div (10 * PctDen)) * 10

\* Math.round(Math.abs(screenLength * percentage) / 10) * 10, for a number
\* percentage; Math.round rounds a tie up.  An infinite percentage gives
\* an infinite edge.
RoundedLength(screenLength, percentage) ==
    IF IsInfinite(percentage) THEN LastNodeXPercentage
    ELSE ((Abs(screenLength * percentage) + 5 * PctDen) \div (10 * PctDen)) * 10

RECURSIVE calculateRects(_, _, _, _, _, _)
RECURSIVE CalcChildren(_, _, _, _, _, _)

\* the loop of calculateRects over children[i..]: prev is previousPosOnAxis,
\* r the rectangle of the parent
CalcChildren(children, i, prev, r, display, acc) ==
    IF i > Len(children) THEN acc
    ELSE
      LET child == children[i]
          ax == axis(child)
          last == (i = Len(children))
          displayOnAxis == <<display.x, display.y>>
          screenLength == <<display.width, display.height>>
          posOnAxis == IF last
                       THEN (IF ax = AxisX THEN r.x + r.width ELSE r.y + r.height)
                       ELSE displayOnAxis[ax + 1]
                              + RoundedLength(screenLength[ax + 1], child.percentage)
          done == IF ax = AxisX
                  THEN calculateRects(child, prev[1], r.y, posOnAxis - prev[1], r.height, display)
                  ELSE calculateRects(child, r.x, prev[2], r.width, posOnAxis - prev[2], display)
          next == IF ax = AxisX THEN <<posOnAxis, prev[2]>> ELSE <<prev[1], posOnAxis>>
      IN CalcChildren(children, i + 1, next, r, display, Append(acc, done))

\* calculateRects(x, y, width, height, display)
calculateRects(n, x, y, width, height, display) ==
    LET r == Rect(x, y, width, height)
    IN IF isLeaf(n) THEN [n EXCEPT !.rect = r]
       ELSE [n EXCEPT !.rect = r,
                      !.children = CalcChildren(n.children, 1, <<x, y>>, r, display, <<>>)]

\* calculateRects(x, y, width, height) on the root: display is the rectangle given
calculateRectsIn(t, x, y, width, height) ==
    calculateRects(t, x, y, width, height, Rect(x, y, width, height))

\* calculateRects() on the root: the current rectangle is used
calculateRectsAgain(t) ==
    calculateRectsIn(t, t.rect.x, t.rect.y, t.rect.width, t.rect.height)

MinSize == 100

\* validateRects() that accepts every rectangle of positive size
RECURSIVE validateRectsPositive(_)
validateRectsPositive(n) ==
    /\ ~(n.rect.width <= 0 \/ n.rect.height <= 0)
    /\ \A i \in DOMAIN n.children : validateRectsPositive(n.children[i])

RECURSIVE validateRects(_)
validateRects(n) ==
    /\ ~(n.rect.width <= MinSize \/ n.rect.height <= MinSize)
    /\ \A i \in DOMAIN n.children : validateRects(n.children[i])

\* ------------------------------------------------------------------------
\* Queries and structural edits

Front(p) == SubSeq(p, 1, Len(p) - 1)

InsertAt(seq, i, e) == SubSeq(seq, 1, i - 1) \o <<e>> \o SubSeq(seq, i, Len(seq))

RemoveAt(seq, i) == SubSeq(seq, 1, i - 1) \o SubSeq(seq, i + 1, Len(seq))

\* Math.abs(a) > Math.abs(b); false when either is undefined (NaN)
AbsGreater(a, b) == a # Undefined /\ b # Undefined /\ Abs(a) > Abs(b)

\* this.children.findIndex(c => Math.abs(c.percentage) > Math.abs(child.percentage)),
\* as the 1-based position splice(index, 0, child) inserts at: index -1
\* means one before the end, and the start of an empty array
InsertIndex(children, child) ==
    LET hits == {i \in DOMAIN children : AbsGreater(children[i].percentage, child.percentage)}
    IN IF hits # {} THEN SetMin(hits) ELSE Max(Len(children), 1)

\* insertChild(child) that puts the child at the end of the list
insertChildAtEnd(n, child, parentRef) ==
    IF IsInfinite(child.percentage) THEN n
    ELSE [n EXCEPT !.children = Append(n.children, [child EXCEPT !.parent = parentRef])]

\* insertChild(child) on node n; parentRef is what `this` is for the child.
\* The child is always a newly created object here, so indexOf(child) is -1.
insertChild(n, child, parentRef) ==
    IF IsInfinite(child.percentage) THEN n
    ELSE [n EXCEPT !.children =
             InsertAt(n.children, InsertIndex(n.children, child),
                      [child EXCEPT !.parent = parentRef])]

\* delete(node) that always splices the node out, whatever the number of
\* children
deleteBySplice(t, p) ==
    IF p = <<>> \/ p = NoPath THEN t
    ELSE LET holder == GetNode(t, Front(p))
         IN SetNode(t, Front(p),
                    [holder EXCEPT !.children = RemoveAt(holder.children, p[Len(p)])])

\* tree.delete(node) for the node at path p of t (the root is in no
\* children list, so nothing is deleted for it, nor for a node that is not
\* in the tree)
delete(t, p) ==
    IF p = <<>> \/ p = NoPath THEN t
    ELSE LET holder == GetNode(t, Front(p))
         IN SetNode(t, Front(p),
                    [holder EXCEPT !.children =
                        IF Len(holder.children) = 2 THEN <<>>
                        ELSE RemoveAt(holder.children, p[Len(p)])])

deleteResult(t, p) == p # <<>> /\ p # NoPath

InRect(x, y, r) ==
    /\ x >= r.x
    /\ x <= r.x + r.width
    /\ y >= r.y
    /\ y <= r.y + r.height

\* findNodeAtPosition(x, y)
findNodeAtPosition(t, x, y) ==
    LET here(n) == InRect(x, y, n.rect) /\ isLeaf(n)
    IN FirstPath(t, here)

\* getDividerRect(dividerWidth) that takes the width as given, whatever
\* the margin
getDividerRectOfWidth(n, dividerWidth) ==
    LET w == dividerWidth
    IN IF axis(n) = AxisX
       THEN Rect(n.rect.x + n.rect.width - w \div 2, n.rect.y, w, n.rect.height)
       ELSE Rect(n.rect.x, n.rect.y + n.rect.height - w \div 2, n.rect.width, w)

\* getDividerRect(dividerWidth)
getDividerRect(n, dividerWidth) ==
    LET w == Max(dividerWidth, 2 * n.margin)
    IN IF axis(n) = AxisX
       THEN Rect(n.rect.x + n.rect.width - w \div 2, n.rect.y, w, n.rect.height)
       ELSE IF axis(n) = AxisY
       THEN Rect(n.rect.x, n.rect.y + n.rect.height - w \div 2, n.rect.width, w)
       ELSE Rect(-1, -1, 0, 0)

\* findDividerAtPosition(x, y, dividerWidth)
findDividerAtPosition(t, x, y, dividerWidth) ==
    LET here(n) == InRect(x, y, getDividerRect(n, dividerWidth))
    IN FirstPath(t, here)

\* ------------------------------------------------------------------------
\* OperationResult

NotHandled == "notHandled"
Handled == "handled"
HandledAndRedraw == "handledAndRedraw"

\* Clutter.BUTTON_PRIMARY, BUTTON_MIDDLE, BUTTON_SECONDARY
Buttons == {"primary", "middle", "secondary"}

\* the pointer position as a percentage of the root rectangle
PercentageOfX(t, x) == ((x - t.rect.x) * PctDen) \div t.rect.width
PercentageOfY(t, y) == -(((y - t.rect.y) * PctDen) \div t.rect.height)

\* ------------------------------------------------------------------------
\* ResizeOperation

dividerWidth == 20

IsResizingNode(n) == n.isResizing

SetOriginalRect(n) == [n EXCEPT !.originalRect = <<n.rect>>]

SetHighlightIfMoved(n) == [n EXCEPT !.isHighlighted = (n.originalRect[1] # n.rect)]

ClearResizing(n) ==
    [n EXCEPT !.isResizing = FALSE, !.originalRect = <<>>, !.isHighlighted = FALSE]

SetPercentage(t, p, percentage) ==
    SetNode(t, p, [GetNode(t, p) EXCEPT !.percentage = percentage])

\* _startResizing that leaves the wiggled percentage in place
startResizingWiggled(t, p) ==
    LET originalPercentage == GetNode(t, p).percentage
        t1 == SetNode(t, p, [GetNode(t, p) EXCEPT !.isResizing = TRUE])
        t2 == forSelfAndDescendants(t1, SetOriginalRect)
        t3 == calculateRectsAgain(SetPercentage(t2, p, WigglePercentage(originalPercentage)))
    IN forSelfAndDescendants(t3, SetHighlightIfMoved)

startResizing(t, p) ==
    LET originalPercentage == GetNode(t, p).percentage
        t1 == SetNode(t, p, [GetNode(t, p) EXCEPT !.isResizing = TRUE])
        t2 == forSelfAndDescendants(t1, SetOriginalRect)
        t3 == calculateRectsAgain(SetPercentage(t2, p, WigglePercentage(originalPercentage)))
        t4 == forSelfAndDescendants(t3, SetHighlightIfMoved)
    IN calculateRectsAgain(SetPercentage(t4, p, originalPercentage))

stopResizing(t) == forSelfAndDescendants(t, ClearResizing)

\* _handleResizing that keeps the candidate percentage whatever
\* validateRects() says
ResizeToUnvalidated(t, p, x, y) ==
    calculateRectsAgain(SetPercentage(t, p,
        IF isColumn(GetNode(t, p)) THEN PercentageOfX(t, x) ELSE PercentageOfY(t, y)))

\* the tree after _handleResizing(x, y) when the node at path p is resizing
ResizeTo(t, p, x, y) ==
    LET resizingNode == GetNode(t, p)
        newPercentage == IF isColumn(resizingNode) THEN PercentageOfX(t, x)
                                                   ELSE PercentageOfY(t, y)
        oldPercentage == resizingNode.percentage
        moved == calculateRectsAgain(SetPercentage(t, p, newPercentage))
    IN IF ~validateRects(moved)
       THEN calculateRectsAgain(SetPercentage(moved, p, oldPercentage))
       ELSE moved

handleResizing(t, x, y) ==
    LET resizingNode == findNode(t, IsResizingNode)
    IN IF resizingNode = NoPath
       THEN [tree |-> t, result |-> NotHandled]
       ELSE [tree |-> ResizeTo(t, resizingNode, x, y), result |-> HandledAndRedraw]

\* onButtonPress that starts resizing without looking for a resizing node
ResizeOnButtonPressAgain(t, x, y, button) ==
    IF button = "primary" /\ findDividerAtPosition(t, x, y, dividerWidth) # NoPath
    THEN [tree |-> startResizing(t, findDividerAtPosition(t, x, y, dividerWidth)),
          result |-> HandledAndRedraw]
    ELSE [tree |-> t, result |-> NotHandled]

\* onButtonPress whose secondary button deletes the divider under the
\* pointer whether or not a node is resizing
ResizeOnButtonPressDeleting(t, x, y, button) ==
    LET resizeNode == findNode(t, IsResizingNode)
        divider == findDividerAtPosition(t, x, y, dividerWidth)
    IN IF button = "secondary" /\ divider # NoPath
       THEN [tree |-> calculateRectsAgain(delete(t, divider)), result |-> HandledAndRedraw]
       ELSE IF resizeNode # NoPath /\ button \in {"primary", "secondary"}
       THEN [tree |-> stopResizing(t), result |-> HandledAndRedraw]
       ELSE IF button = "primary" /\ divider # NoPath
       THEN [tree |-> startResizing(t, divider), result |-> HandledAndRedraw]
       ELSE [tree |-> t, result |-> NotHandled]

ResizeOnButtonPress(t, x, y, button) ==
    LET resizeNode == findNode(t, IsResizingNode)
        divider == findDividerAtPosition(t, x, y, dividerWidth)
    IN IF resizeNode = NoPath /\ button = "secondary" /\ divider # NoPath
       THEN [tree |-> calculateRectsAgain(delete(t, divider)), result |-> HandledAndRedraw]
       ELSE IF resizeNode # NoPath /\ button = "primary"
       THEN [tree |-> stopResizing(t), result |-> HandledAndRedraw]
       ELSE IF resizeNode # NoPath /\ button = "secondary"
       THEN [tree |-> stopResizing(t), result |-> HandledAndRedraw]
       ELSE IF button = "primary" /\ divider # NoPath
       THEN [tree |-> startResizing(t, divider), result |-> HandledAndRedraw]
       ELSE [tree |-> t, result |-> NotHandled]

ResizeOnButtonRelease(t, x, y, button) ==
    IF button = "primary" /\ findNode(t, IsResizingNode) # NoPath
    THEN [tree |-> stopResizing(t), result |-> HandledAndRedraw]
    ELSE [tree |-> t, result |-> NotHandled]

ResizeOnMotion(t, x, y) == handleResizing(t, x, y)

\* ------------------------------------------------------------------------
\* PreviewSplitOperation
\*
\* prePreviewSnapshot is <<>> (null) or <<snapshot>>.

IsPreviewNode(n) == n.isPreview

\* the object a node's parent field refers to
ParentRef(t, p) ==
    LET kind == GetNode(t, p).parent
    IN IF kind = "owner" THEN <<"node", Front(p)>> ELSE <<kind, <<>>>>

\* _cancel()
previewCancel(t, snap) ==
    IF snap # <<>>
    THEN [tree |-> revert(t, snap[1]), snap |-> <<>>]
    ELSE [tree |-> t, snap |-> snap]

NewPreviewNode(percentage, splittingNode) ==
    [NewNode(percentage) EXCEPT !.isPreview = TRUE,
                                !.isHighlighted = TRUE,
                                !.margin = splittingNode.margin]

\* _startPreview(splittingNode, percentage) whose filler node is always the
\* filler of a column split
startPreviewColumnFiller(t, np, percentage) ==
    LET splittingNode == GetNode(t, np)
        previewNode == NewPreviewNode(percentage, splittingNode)
    IN IF axis(previewNode) = axis(splittingNode) /\ splittingNode.parent # "null"
       THEN LET holder == GetNode(t, Front(np))
                j == InsertIndex(holder.children, previewNode)
                k == IF j <= np[Len(np)] THEN np[Len(np)] + 1 ELSE np[Len(np)]
                inserted == insertChild(holder, previewNode, splittingNode.parent)
            IN [tree |-> SetNode(t, Front(np),
                                 [inserted EXCEPT !.children[k].isHighlighted = TRUE]),
                previewNode |-> Append(Front(np), j)]
       ELSE LET lastChild ==
                    [NewNode(LastNodeXPercentage) EXCEPT
                        !.isHighlighted = TRUE,
                        !.parent = "owner",
                        !.margin = splittingNode.margin]
            IN [tree |-> SetNode(t, np,
                                 [splittingNode EXCEPT !.children =
                                     <<[previewNode EXCEPT !.parent = "owner"], lastChild>>]),
                previewNode |-> Append(np, 1)]

\* _startPreview(splittingNode, percentage) for the node at path np of t.
\* previewNode is the path of the new node.  A splitting node whose parent
\* is the detached snapshot root inserts into that root's children array,
\* which is the array the tree's root holds.
startPreview(t, np, percentage) ==
    LET splittingNode == GetNode(t, np)
        previewNode == NewPreviewNode(percentage, splittingNode)
    IN IF axis(previewNode) = axis(splittingNode) /\ splittingNode.parent # "null"
       THEN LET holder == GetNode(t, Front(np))
                j == InsertIndex(holder.children, previewNode)
                k == IF j <= np[Len(np)] THEN np[Len(np)] + 1 ELSE np[Len(np)]
                inserted == insertChild(holder, previewNode, splittingNode.parent)
            IN [tree |-> SetNode(t, Front(np),
                                 [inserted EXCEPT !.children[k].isHighlighted = TRUE]),
                previewNode |-> Append(Front(np), j)]
       ELSE LET lastChild ==
                    [NewNode(LastNodePercentages[axis(previewNode) + 1]) EXCEPT
                        !.isHighlighted = TRUE,
                        !.parent = "owner",
                        !.margin = splittingNode.margin]
            IN [tree |-> SetNode(t, np,
                                 [splittingNode EXCEPT !.children =
                                     <<[previewNode EXCEPT !.parent = "owner"], lastChild>>]),
                previewNode |-> Append(np, 1)]

\* _startPreview on a node object that revert() has just dropped from the
\* tree (it was found before the revert).  Only an insertion into the
\* root object reaches the tree; previewNode is NoPath when the new node is
\* not part of the tree.
startPreviewDropped(t, np, splittingNode, percentage) ==
    LET previewNode == NewPreviewNode(percentage, splittingNode)
    IN IF /\ axis(previewNode) = axis(splittingNode)
          /\ splittingNode.parent = "owner"
          /\ Len(np) = 1
       THEN [tree |-> insertChild(t, previewNode, "owner"),
             previewNode |-> <<InsertIndex(t.children, previewNode)>>]
       ELSE [tree |-> t, previewNode |-> NoPath]

\* the third block of _handlePreview, for a preview node of the tree
movePreview(t, pp, x, y) ==
    LET previewNode == GetNode(t, pp)
        percentage == IF isColumn(previewNode) THEN PercentageOfX(t, x)
                                               ELSE PercentageOfY(t, y)
        oldPercentage == previewNode.percentage
        moved == calculateRectsAgain(SetPercentage(t, pp, percentage))
    IN IF ~validateRects(moved)
       THEN calculateRectsAgain(SetPercentage(moved, pp, oldPercentage))
       ELSE moved

\* the one element of a singleton set
Only(S) == CHOOSE v \in S : TRUE

\* The three blocks of _handlePreview pass on a record: `some` says whether
\* the local previewNode refers to an object, previewNode is its path when
\* it is in the tree, `dropped` says that revert() has dropped the object
\* that the local `node` refers to.

\* a first block that forgets the preview node it found
cancelOutOfBoundsForgetting(t, snap, node, found, previewModeEnabled) ==
    [tree |-> t, snap |-> snap, some |-> FALSE, previewNode |-> NoPath,
     dropped |-> FALSE, result |-> NotHandled]

\* first block: cancel the preview if going out of bounds
cancelOutOfBounds(t, snap, node, found, previewModeEnabled) ==
    IF /\ found # NoPath
       /\ \/ (node # NoPath /\ ParentRef(t, node) # ParentRef(t, found))
          \/ ~previewModeEnabled
    THEN [tree |-> calculateRectsAgain(previewCancel(t, snap).tree),
          snap |-> previewCancel(t, snap).snap,
          some |-> FALSE, previewNode |-> NoPath,
          dropped |-> snap # <<>> /\ node # <<>>,
          result |-> HandledAndRedraw]
    ELSE [tree |-> t, snap |-> snap,
          some |-> found # NoPath, previewNode |-> found,
          dropped |-> FALSE,
          result |-> NotHandled]

\* second block, after _startPreview: check whether the initial split is
\* valid at all, if not revert
checkInitialSplit(first, snapshot, previewNode) ==
    IF ~validateRects(first)
    THEN [tree |-> previewCancel(first, <<snapshot>>).tree,
          snap |-> previewCancel(first, <<snapshot>>).snap,
          some |-> TRUE, previewNode |-> NoPath, dropped |-> FALSE,
          result |-> HandledAndRedraw]
    ELSE [tree |-> first, snap |-> <<snapshot>>,
          some |-> TRUE, previewNode |-> previewNode, dropped |-> FALSE,
          result |-> HandledAndRedraw]

\* second block: start a new preview; splittingNode is the object `node`
\* refers to
startNewPreview(s1, node, splittingNode, x, y, ctrlPressed, shiftPressed) ==
    IF /\ ~s1.some
       /\ node # NoPath
       /\ isLeaf(splittingNode)
       /\ (ctrlPressed \/ shiftPressed)
    THEN LET isColumnSplit == ctrlPressed
             percentage == IF isColumnSplit THEN PercentageOfX(s1.tree, x)
                                            ELSE PercentageOfY(s1.tree, y)
         IN Only({checkInitialSplit(calculateRectsAgain(started.tree), clone(s1.tree),
                                    started.previewNode) :
                    started \in {IF s1.dropped
                                 THEN startPreviewDropped(s1.tree, node, splittingNode, percentage)
                                 ELSE startPreview(s1.tree, node, percentage)}})
    ELSE s1

\* third block: move around the divider of the preview node
movePreviewNode(s2, x, y) ==
    IF s2.some
    THEN [tree |-> IF s2.previewNode # NoPath
                   THEN movePreview(s2.tree, s2.previewNode, x, y)
                   ELSE calculateRectsAgain(s2.tree),
          snap |-> s2.snap, result |-> HandledAndRedraw]
    ELSE [tree |-> s2.tree, snap |-> s2.snap, result |-> s2.result]

\* _handlePreview(x, y, state)
handlePreview(t, snap, x, y, ctrlPressed, shiftPressed) ==
    Only({movePreviewNode(s2, x, y) :
            s2 \in {startNewPreview(s1, node,
                                    IF node = NoPath THEN t ELSE GetNode(t, node),
                                    x, y, ctrlPressed, shiftPressed) :
                      s1 \in {cancelOutOfBounds(t, snap, node, findNode(t, IsPreviewNode),
                                                ctrlPressed \/ shiftPressed) :
                                node \in {findNodeAtPosition(t, x, y)}},
                      node \in {findNodeAtPosition(t, x, y)}}})

ClearPreview(n) == [n EXCEPT !.isPreview = FALSE, !.originalRect = <<>>]

\* _finalizePreview() that keeps the rollback snapshot
finalizePreviewKeepingSnapshot(t, snap) ==
    IF validateRects(t)
    THEN [tree |-> forSelfAndDescendants(t, ClearPreview), snap |-> snap]
    ELSE [tree |-> t, snap |-> snap]

\* _finalizePreview()
finalizePreview(t, snap) ==
    IF validateRects(t)
    THEN [tree |-> forSelfAndDescendants(t, ClearPreview), snap |-> <<>>]
    ELSE [tree |-> t, snap |-> snap]

PreviewOnMotion(t, snap, x, y, ctrlPressed, shiftPressed) ==
    handlePreview(t, snap, x, y, ctrlPressed, shiftPressed)

PreviewOnKeyPress(t, snap, x, y, ctrlPressed, shiftPressed) ==
    handlePreview(t, snap, x, y, ctrlPressed, shiftPressed)

\* onKeyRelease that cancels when neither modifier is part of the state
PreviewOnKeyReleaseWhenNoneHeld(t, snap, ctrlPressed, shiftPressed) ==
    IF ~(ctrlPressed \/ shiftPressed)
    THEN LET c == previewCancel(t, snap)
         IN [tree |-> c.tree, snap |-> c.snap, result |-> HandledAndRedraw]
    ELSE [tree |-> t, snap |-> snap, result |-> NotHandled]

PreviewOnKeyRelease(t, snap, ctrlPressed, shiftPressed) ==
    IF ctrlPressed \/ shiftPressed
    THEN LET c == previewCancel(t, snap)
         IN [tree |-> c.tree, snap |-> c.snap, result |-> HandledAndRedraw]
    ELSE [tree |-> t, snap |-> snap, result |-> NotHandled]

PreviewOnButtonPress(t, snap, x, y, ctrlPressed, shiftPressed, button) ==
    IF findNode(t, IsPreviewNode) # NoPath /\ button = "primary"
    THEN LET f == finalizePreview(t, snap)
         IN [tree |-> f.tree, snap |-> f.snap, result |-> HandledAndRedraw]
    ELSE handlePreview(t, snap, x, y, ctrlPressed, shiftPressed)

\* ------------------------------------------------------------------------
\* SnappingOperation

ClearSnapping(n) == [n EXCEPT !.isSnappingDestination = FALSE, !.isHighlighted = FALSE]

IsSnappingDestination(n) == n.isSnappingDestination

\* a cancel() that clears the flags before it looks at showRegions
SnappingCancelClearing(t, show) ==
    [tree |-> forSelfAndDescendants(t, ClearSnapping), showRegions |-> FALSE,
     result |-> IF show THEN HandledAndRedraw ELSE NotHandled]

\* cancel() that leaves showRegions as it is
SnappingCancelKeepingRegions(t, show) ==
    IF show
    THEN [tree |-> forSelfAndDescendants(t, ClearSnapping), showRegions |-> show,
          result |-> HandledAndRedraw]
    ELSE [tree |-> t, showRegions |-> show, result |-> NotHandled]

\* cancel()
SnappingCancel(t, show) ==
    IF show
    THEN [tree |-> forSelfAndDescendants(t, ClearSnapping), showRegions |-> FALSE,
          result |-> HandledAndRedraw]
    ELSE [tree |-> t, showRegions |-> show, result |-> NotHandled]

\* onMotion(x, y, state) that marks the node without clearing the others
SnappingOnMotionKeeping(t, show, x, y, snappingEnabled) ==
    LET node == findNodeAtPosition(t, x, y)
    IN IF ~snappingEnabled THEN SnappingCancel(t, show)
       ELSE IF node = NoPath THEN SnappingCancel(t, show)
       ELSE [tree |-> SetNode(t, node,
                              [GetNode(t, node) EXCEPT
                                  !.isSnappingDestination = TRUE,
                                  !.isHighlighted = TRUE]),
             showRegions |-> TRUE,
             result |-> HandledAndRedraw]

\* onMotion(x, y, state); snappingEnabled is
\* enableSnappingModifiers.length == 0 || enableSnappingModifiers.some(e => state & e)
SnappingOnMotion(t, show, x, y, snappingEnabled) ==
    LET node == findNodeAtPosition(t, x, y)
        cleared == forSelfAndDescendants(t, ClearSnapping)
    IN IF ~snappingEnabled THEN SnappingCancel(t, show)
       ELSE IF node = NoPath THEN SnappingCancel(t, show)
       ELSE [tree |-> SetNode(cleared, node,
                              [GetNode(cleared, node) EXCEPT
                                  !.isSnappingDestination = TRUE,
                                  !.isHighlighted = TRUE]),
             showRegions |-> TRUE,
             result |-> HandledAndRedraw]

\* currentSnapToRect(): <<>> is null
currentSnapToRect(t) ==
    LET snapToNode == findNode(t, IsSnappingDestination)
    IN IF snapToNode = NoPath THEN <<>> ELSE <<snapRect(GetNode(t, snapToNode))>>

\* ------------------------------------------------------------------------
\* MarginsOperation

marginMin == 0
marginMax == 20

IncreaseMargin(n) == [n EXCEPT !.margin = Max(Min(n.margin + 1, marginMax), marginMin)]

\* the decrement without the clamp
DecreaseMarginUnclamped(n) == [n EXCEPT !.margin = n.margin - 1]

DecreaseMargin(n) == [n EXCEPT !.margin = Max(Min(n.margin - 1, marginMax), marginMin)]

MarginsOnKeyPress(t, key) ==
    IF key = "Page_Up"
    THEN [tree |-> calculateRectsAgain(forDescendants(t, IncreaseMargin)),
          result |-> HandledAndRedraw]
    ELSE IF key = "Page_Down"
    THEN [tree |-> calculateRectsAgain(forDescendants(t, DecreaseMargin)),
          result |-> HandledAndRedraw]
    ELSE [tree |-> t, result |-> NotHandled]

\* ------------------------------------------------------------------------
\* LayoutOperation: the handlers an operation does not override

\* onButtonPress, onButtonRelease, onMotion, cancel, onKeyPress and
\* onKeyRelease of the base class
LayoutOperationDefault(t) == [tree |-> t, result |-> NotHandled]

\* ResizeOperation, PreviewSplitOperation, MarginsOperation and
\* PresetShortcutOperation inherit cancel()
ResizeCancel(t) == LayoutOperationDefault(t)

\* ------------------------------------------------------------------------
\* The layouts of the application

\* new LayoutNode(0, [new LayoutNode(0.5, [new LayoutNode(-0.5), new LayoutNode(0)]),
\*                    new LayoutNode(0,   [new LayoutNode(-0.5), new LayoutNode(0)])])
LayoutOf2x2 ==
    LayoutNode(0, <<
        LayoutNode(PctDen \div 2, <<NewNode(-(PctDen \div 2)), NewNode(0)>>),
        LayoutNode(0, <<NewNode(-(PctDen \div 2)), NewNode(0)>>)>>)

LayoutOf3x2 ==
    LayoutNode(0, <<
        LayoutNode(PctDen \div 3, <<NewNode(-(PctDen \div 2)), NewNode(0)>>),
        LayoutNode((2 * PctDen) \div 3, <<NewNode(-(PctDen \div 2)), NewNode(0)>>),
        LayoutNode(0, <<NewNode(-(PctDen \div 2)), NewNode(0)>>)>>)

LayoutOf3x3 ==
    LayoutNode(0, <<
        LayoutNode(PctDen \div 3,
            <<NewNode(-(PctDen \div 3)), NewNode(-((2 * PctDen) \div 3)), NewNode(0)>>),
        LayoutNode((2 * PctDen) \div 3,
            <<NewNode(-(PctDen \div 3)), NewNode(-((2 * PctDen) \div 3)), NewNode(0)>>),
        LayoutNode(0,
            <<NewNode(-(PctDen \div 3)), NewNode(-((2 * PctDen) \div 3)), NewNode(0)>>)>>)

LayoutOf2x3 ==
    LayoutNode(0, <<
        LayoutNode(PctDen \div 2,
            <<NewNode(-(PctDen \div 3)), NewNode(-((2 * PctDen) \div 3)), NewNode(0)>>),
        LayoutNode(0,
            <<NewNode(-(PctDen \div 3)), NewNode(-((2 * PctDen) \div 3)), NewNode(0)>>)>>)

\* #loadPresets() when no preset file exists: four empty user presets, then
\* the four system presets
Presets ==
    <<NewNode(0), NewNode(0), NewNode(0), NewNode(0),
      clone(LayoutOf2x2), clone(LayoutOf3x2), clone(LayoutOf2x3), clone(LayoutOf3x3)>>

\* the work area the editor lays the tree out in
WorkArea == Rect(0, 0, 1000, 800)

SetMargin(n, margin) == [n EXCEPT !.margin = margin]

\* GridEditor.#usePreset(layout)
usePreset(t, layout) ==
    LET currentMargin == IF isLeaf(t) THEN 0 ELSE t.children[1].margin
        SetCurrentMargin(n) == SetMargin(n, currentMargin)
    IN calculateRectsIn(forSelfAndDescendants(revert(t, clone(layout)), SetCurrentMargin),
                        WorkArea.x, WorkArea.y, WorkArea.width, WorkArea.height)

\* ------------------------------------------------------------------------
\* PresetShortcutOperation

PresetKeys == <<"1", "2", "3", "4", "5", "6", "7", "8">>

PresetIndex(key) == CHOOSE i \in 1..Len(PresetKeys) : PresetKeys[i] = key

\* onKeyPress(x, y, state, key) with #onUsePreset bound to GridEditor.#usePreset
PresetOnKeyPress(t, key) ==
    IF \E i \in 1..Len(PresetKeys) : PresetKeys[i] = key
    THEN [tree |-> usePreset(t, Presets[PresetIndex(key)]), result |-> HandledAndRedraw]
    ELSE [tree |-> t, result |-> NotHandled]

\* ------------------------------------------------------------------------
\* Serialization.  A JSON object is a record; a field the object does not
\* have is Undefined (percentage, margin) or the empty sequence (children).

RECURSIVE toJSON(_)
toJSON(n) ==
    [children |-> [i \in 1..Len(n.children) |-> toJSON(n.children[i])],
     percentage |-> IF n.percentage = LastNodeXPercentage THEN LastNodeXPercentageJson
                    ELSE IF n.percentage = LastNodeYPercentage THEN LastNodeYPercentageJson
                    ELSE n.percentage,
     margin |-> IF n.margin # 0 THEN n.margin ELSE Undefined]

\* a fromJSON that reads the percentage as it is written
RECURSIVE fromJSONLiteral(_, _)
fromJSONLiteral(n, json) ==
    [n EXCEPT
        !.percentage = json.percentage,
        !.margin = IF json.margin # Undefined THEN json.margin ELSE @,
        !.children = IF Len(json.children) > 0
                     THEN [i \in 1..Len(json.children) |->
                              fromJSONLiteral([NewNode(Undefined) EXCEPT !.parent = "owner"],
                                              json.children[i])]
                     ELSE @]

\* fromJSON(json) on the node n
RECURSIVE fromJSON(_, _)
fromJSON(n, json) ==
    [n EXCEPT
        !.percentage = IF json.percentage = LastNodeXPercentageJson THEN LastNodeXPercentage
                       ELSE IF json.percentage = LastNodeYPercentageJson THEN LastNodeYPercentage
                       ELSE json.percentage,
        !.margin = IF json.margin # Undefined THEN json.margin ELSE @,
        !.children = IF Len(json.children) > 0
                     THEN [i \in 1..Len(json.children) |->
                              fromJSON([NewNode(Undefined) EXCEPT !.parent = "owner"],
                                       json.children[i])]
                     ELSE @]

\* what a call returned: true or false
Returned(value) == IF value THEN "true" ELSE "false"

\* the contents of a file that JSON.parse() throws on
Unparsable == [unparsable |-> TRUE]

IsParsable(contents) == "unparsable" \notin DOMAIN contents

\* LayoutIO.saveLayoutForDisplay(displayIdx, layout): the file afterwards
saveLayoutForDisplay(file, layout) ==
    IF ~IntegrityOk(layout) THEN file ELSE <<toJSON(layout)>>

\* what saveLayoutForDisplay returns (the file can be written)
saveLayoutForDisplayResult(file, layout) == IntegrityOk(layout)

\* a loadLayoutForDisplay that trusts the file
loadLayoutForDisplayUnchecked(file) ==
    IF file = <<>> THEN <<>>
    ELSE IF ~IsParsable(file[1]) THEN <<>>
    ELSE <<fromJSON(NewNode(Undefined), file[1])>>

\* LayoutIO.loadLayoutForDisplay(displayIdx): <<>> is null
loadLayoutForDisplay(file) ==
    IF file = <<>> THEN <<>>
    ELSE IF ~IsParsable(file[1]) THEN <<>>
    ELSE LET layout == fromJSON(NewNode(Undefined), file[1])
         IN IF ~IntegrityOk(layout) THEN <<>> ELSE <<layout>>

\* #readOrCreateLayoutForDisplay(displayIdx) of a freshly started application
readOrCreateLayoutForDisplay(file) ==
    LET loaded == loadLayoutForDisplay(file)
    IN IF loaded = <<>> THEN clone(LayoutOf2x2) ELSE loaded[1]

\* ------------------------------------------------------------------------
\* The editor: one tree, the operations of the grid editor acting on it,
\* and the layout file of the display

VARIABLES
    tree,                \* the layout tree (the root LayoutNode)
    prePreviewSnapshot,  \* PreviewSplitOperation.prePreviewSnapshot
    showRegions,         \* SnappingOperation.showRegions
    file,                \* the layout file of the display: <<>> or <<json>>
    event,               \* the handler called last
    result,              \* what it returned
    layouts,             \* Application.#layouts: per display <<>> or <<reference>>
    objects              \* the trees the references of #layouts point to

vars == <<tree, prePreviewSnapshot, showRegions, file, event, result, layouts, objects>>

\* pointer positions on the 2x2 layout: on the column divider, on the row
\* divider of the left column, on the bottom edge of the left column, on
\* the right edge of the work area, on its top edge, and 50 pixels from its
\* left edge
ResizePointers == {<<500, 200>>, <<250, 400>>, <<250, 800>>,
                   <<1000, 600>>, <<500, 0>>, <<50, 200>>}

\* pointer positions for splitting an empty layout
SplitPointers == {<<250, 200>>, <<250, 400>>}

\* the pointer position where all five operations act
AllPointers == {<<250, 200>>}

\* <<ctrl, shift>> of the modifier state
Modifiers == {<<FALSE, FALSE>>, <<TRUE, FALSE>>, <<FALSE, TRUE>>}

Keys == {"Page_Up", "Page_Down", "1", "a"}

\* the keys of the presets used: an empty user preset, the 2x2 and the 3x2
\* system preset
PresetKeysUsed == {"1", "5", "6"}

\* the model stops splitting at MaxNodes nodes; at MaxNodesAll nodes where
\* all five operations act
MaxNodes == 4
MaxNodesAll == 3

\* the model stops widening the margins at MaxMargin
MaxMargin == 1

NodeCount(t) == Len(PreOrder(t))

\* no pointer position
NoXY == <<-1, -1>>

\* the handler called last: the button or key it was called with (for a
\* motion of the SnappingOperation, whether the modifier state enables
\* snapping), and for a motion the pointer position
Event(handler, input, xy) == [handler |-> handler, input |-> input, x |-> xy[1], y |-> xy[2]]

InitWith(layout) ==
    /\ tree = calculateRectsIn(layout, WorkArea.x, WorkArea.y,
                               WorkArea.width, WorkArea.height)
    /\ prePreviewSnapshot = <<>>
    /\ showRegions = FALSE
    /\ layouts = <<>>
    /\ objects = <<>>
    /\ file = <<>>
    /\ event = Event("none", "none", NoXY)
    /\ result = NotHandled

ResizeButtonPress(pointers) ==
    \E xy \in pointers, button \in Buttons :
        \E r \in {ResizeOnButtonPress(tree, xy[1], xy[2], button)} :
           /\ tree' = r.tree
           /\ result' = r.result
           /\ event' = Event("Resize.onButtonPress", button, NoXY)
           /\ UNCHANGED <<prePreviewSnapshot, showRegions, file, layouts, objects>>

ResizeButtonRelease(pointers) ==
    \E xy \in pointers, button \in Buttons :
        \E r \in {ResizeOnButtonRelease(tree, xy[1], xy[2], button)} :
           /\ tree' = r.tree
           /\ result' = r.result
           /\ event' = Event("Resize.onButtonRelease", button, NoXY)
           /\ UNCHANGED <<prePreviewSnapshot, showRegions, file, layouts, objects>>

ResizeMotion(pointers) ==
    \E xy \in pointers :
        \E r \in {ResizeOnMotion(tree, xy[1], xy[2])} :
           /\ tree' = r.tree
           /\ result' = r.result
           /\ event' = Event("Resize.onMotion", "none", xy)
           /\ UNCHANGED <<prePreviewSnapshot, showRegions, file, layouts, objects>>

ResizeCancelled ==
    \E r \in {ResizeCancel(tree)} :
       /\ tree' = r.tree
       /\ result' = r.result
       /\ event' = Event("Resize.cancel", "none", NoXY)
       /\ UNCHANGED <<prePreviewSnapshot, showRegions, file, layouts, objects>>

PreviewMotion(pointers, maxNodes) ==
    \E xy \in pointers, state \in Modifiers :
        \E r \in {PreviewOnMotion(tree, prePreviewSnapshot, xy[1], xy[2], state[1], state[2])} :
           /\ NodeCount(r.tree) <= maxNodes
           /\ tree' = r.tree
           /\ prePreviewSnapshot' = r.snap
           /\ result' = r.result
           /\ event' = Event("Preview.onMotion", "none", xy)
           /\ UNCHANGED <<showRegions, file, layouts, objects>>

PreviewKeyPress(pointers, maxNodes) ==
    \E xy \in pointers, state \in Modifiers :
        \E r \in {PreviewOnKeyPress(tree, prePreviewSnapshot, xy[1], xy[2], state[1], state[2])} :
           /\ NodeCount(r.tree) <= maxNodes
           /\ tree' = r.tree
           /\ prePreviewSnapshot' = r.snap
           /\ result' = r.result
           /\ event' = Event("Preview.onKeyPress", "none", NoXY)
           /\ UNCHANGED <<showRegions, file, layouts, objects>>

PreviewKeyRelease ==
    \E state \in Modifiers :
        \E r \in {PreviewOnKeyRelease(tree, prePreviewSnapshot, state[1], state[2])} :
           /\ tree' = r.tree
           /\ prePreviewSnapshot' = r.snap
           /\ result' = r.result
           /\ event' = Event("Preview.onKeyRelease", "none", NoXY)
           /\ UNCHANGED <<showRegions, file, layouts, objects>>

PreviewButtonPress(pointers, maxNodes) ==
    \E xy \in pointers, state \in Modifiers, button \in Buttons :
        \E r \in {PreviewOnButtonPress(tree, prePreviewSnapshot, xy[1], xy[2],
                                      state[1], state[2], button)} :
           /\ NodeCount(r.tree) <= maxNodes
           /\ tree' = r.tree
           /\ prePreviewSnapshot' = r.snap
           /\ result' = r.result
           /\ event' = Event("Preview.onButtonPress", button, NoXY)
           /\ UNCHANGED <<showRegions, file, layouts, objects>>

SnappingMotion(pointers) ==
    \E xy \in pointers, snappingEnabled \in BOOLEAN :
        \E r \in {SnappingOnMotion(tree, showRegions, xy[1], xy[2], snappingEnabled)} :
           /\ tree' = r.tree
           /\ showRegions' = r.showRegions
           /\ result' = r.result
           /\ event' = Event("Snapping.onMotion",
                              IF snappingEnabled THEN "enabled" ELSE "disabled", xy)
           /\ UNCHANGED <<prePreviewSnapshot, file, layouts, objects>>

SnappingCancelled ==
    \E r \in {SnappingCancel(tree, showRegions)} :
       /\ tree' = r.tree
       /\ showRegions' = r.showRegions
       /\ result' = r.result
       /\ event' = Event("Snapping.cancel", "none", NoXY)
       /\ UNCHANGED <<prePreviewSnapshot, file, layouts, objects>>

MarginsKeyPress(keys) ==
    \E key \in keys :
        \E r \in {MarginsOnKeyPress(tree, key)} :
           /\ \A p \in Paths(r.tree) : GetNode(r.tree, p).margin <= MaxMargin
           /\ tree' = r.tree
           /\ result' = r.result
           /\ event' = Event("Margins.onKeyPress", key, NoXY)
           /\ UNCHANGED <<prePreviewSnapshot, showRegions, file, layouts, objects>>

PresetKeyPress(keys) ==
    \E key \in keys :
        \E r \in {PresetOnKeyPress(tree, key)} :
           /\ tree' = r.tree
           /\ result' = r.result
           /\ event' = Event("PresetShortcut.onKeyPress", key, NoXY)
           /\ UNCHANGED <<prePreviewSnapshot, showRegions, file, layouts, objects>>

\* the application saves the layout of the display
SaveLayout ==
    /\ file' = saveLayoutForDisplay(file, tree)
    /\ result' = Returned(saveLayoutForDisplayResult(file, tree))
    /\ event' = Event("saveLayoutForDisplay", "none", NoXY)
    /\ UNCHANGED <<tree, prePreviewSnapshot, showRegions, layouts, objects>>

\* the application starts again and opens the editor on the display
OpenEditor ==
    /\ tree' = calculateRectsIn(readOrCreateLayoutForDisplay(file),
                                WorkArea.x, WorkArea.y, WorkArea.width, WorkArea.height)
    /\ prePreviewSnapshot' = <<>>
    /\ showRegions' = FALSE
    /\ event' = Event("openEditor", "none", NoXY)
    /\ UNCHANGED <<file, result, layouts, objects>>

\* the editor opened on the default layout, a divider being dragged
Init == InitWith(clone(LayoutOf2x2))

NextResize ==
    \/ ResizeButtonPress(ResizePointers)
    \/ ResizeButtonRelease(ResizePointers)
    \/ ResizeMotion(ResizePointers)
    \/ ResizeCancelled

SpecResize == Init /\ [][NextResize]_vars

\* the editor opened on an empty layout: splitting and resizing
InitEmpty == InitWith(NewNode(0))

NextEdit ==
    \/ ResizeButtonPress(SplitPointers)
    \/ ResizeButtonRelease(SplitPointers)
    \/ ResizeMotion(SplitPointers)
    \/ PreviewMotion(SplitPointers, MaxNodes)
    \/ PreviewKeyPress(SplitPointers, MaxNodes)
    \/ PreviewKeyRelease
    \/ PreviewButtonPress(SplitPointers, MaxNodes)

SpecEdit == InitEmpty /\ [][NextEdit]_vars

\* the five operations of the editor on an empty layout
NextAll ==
    \/ ResizeButtonPress(AllPointers)
    \/ ResizeButtonRelease(AllPointers)
    \/ ResizeMotion(AllPointers)
    \/ ResizeCancelled
    \/ PreviewMotion(AllPointers, MaxNodesAll)
    \/ PreviewKeyPress(AllPointers, MaxNodesAll)
    \/ PreviewKeyRelease
    \/ PreviewButtonPress(AllPointers, MaxNodesAll)
    \/ SnappingMotion(AllPointers)
    \/ SnappingCancelled
    \/ MarginsKeyPress(Keys)
    \/ PresetKeyPress(Keys)

SpecAll == InitEmpty /\ [][NextAll]_vars

\* presets, margins and the layout file
NextStore ==
    \/ PresetKeyPress(PresetKeysUsed \cup {"a"})
    \/ MarginsKeyPress(Keys)
    \/ SaveLayout
    \/ OpenEditor

SpecStore == Init /\ [][NextStore]_vars

\* ------------------------------------------------------------------------
\* Properties

NoneResizing(t) == \A p \in Paths(t) : ~GetNode(t, p).isResizing

\* C1: every tree reached from a tree without integrity error by the
\* events of the operations is itself without integrity error
\* (getIntegrityError() is null); in particular every last child carries a
\* sentinel percentage.
C1_IntegrityPreserved == IntegrityOk(tree)

\* the position and the length of a rectangle along an axis
PosOnAxis(r, ax) == IF ax = AxisX THEN r.x ELSE r.y
LengthOnAxis(r, ax) == IF ax = AxisX THEN r.width ELSE r.height

\* the children of n, in stored order, tile the rectangle of n along ax
TilesAlong(n, ax) ==
    LET k == Len(n.children)
        other == 1 - ax
    IN /\ PosOnAxis(n.children[1].rect, ax) = PosOnAxis(n.rect, ax)
       /\ \A i \in 1..(k - 1) :
             PosOnAxis(n.children[i].rect, ax) + LengthOnAxis(n.children[i].rect, ax)
                = PosOnAxis(n.children[i + 1].rect, ax)
       /\ PosOnAxis(n.children[k].rect, ax) + LengthOnAxis(n.children[k].rect, ax)
             = PosOnAxis(n.rect, ax) + LengthOnAxis(n.rect, ax)
       /\ \A i \in 1..k :
             /\ LengthOnAxis(n.children[i].rect, ax) >= 0
             /\ PosOnAxis(n.children[i].rect, other) = PosOnAxis(n.rect, other)
             /\ LengthOnAxis(n.children[i].rect, other) = LengthOnAxis(n.rect, other)

Tiled(t) ==
    \A p \in Paths(t) :
        LET n == GetNode(t, p)
        IN isLeaf(n) \/ TilesAlong(n, axis(n.children[1]))

\* C2: after calculateRects on the root the children of every internal
\* node tile the node's rectangle along its partition axis, without gap
\* or overlap, and have the node's extent in the other dimension.
C2_ChildrenTileParent == Tiled(calculateRectsAgain(tree))

\* C3: while a node is resizing, a motion whose candidate percentage gives
\* some node a width or height <= 100 changes neither the percentage of
\* the resizing node nor the rectangle of any node.
C3_InvalidResizeRejected ==
    [][(/\ event'.handler = "Resize.onMotion"
        /\ findNode(tree, IsResizingNode) # NoPath
        /\ ~validateRects(calculateRectsAgain(SetPercentage(tree,
               findNode(tree, IsResizingNode),
               IF isColumn(GetNode(tree, findNode(tree, IsResizingNode)))
               THEN PercentageOfX(tree, event'.x)
               ELSE PercentageOfY(tree, event'.y)))))
       => /\ Paths(tree') = Paths(tree)
          /\ GetNode(tree', findNode(tree, IsResizingNode)).percentage
                = GetNode(tree, findNode(tree, IsResizingNode)).percentage
          /\ \A p \in Paths(tree) : GetNode(tree', p).rect = GetNode(tree, p).rect]_vars

\* the root's first child is being dragged from 0.5 to 0.05 and is still at 0.5
C3_Witness ==
    /\ event.handler = "Resize.onMotion"
    /\ event.x = 50
    /\ tree.children[1].isResizing
    /\ tree.children[1].percentage = PctDen \div 2
    /\ tree.children[1].rect.width = 500

\* C7: after cancel() of the ResizeOperation no node is resizing and the
\* node that was resizing has the percentage it had when resizing started.
C7_ResizeCancelReverts == event.handler = "Resize.cancel" => NoneResizing(tree)

\* C9: findDividerAtPosition never returns the root, so that no button
\* press starts resizing the root.
C9_RootHasNoDivider ==
    /\ \A xy \in ResizePointers :
          findDividerAtPosition(tree, xy[1], xy[2], dividerWidth) # <<>>
    /\ ~tree.isResizing

NonePreview(t) == \A p \in Paths(t) : ~GetNode(t, p).isPreview

\* the same shape and, node by node, the same percentage, rectangle and margin
SameLayout(a, b) ==
    /\ Paths(a) = Paths(b)
    /\ \A p \in Paths(a) :
          /\ GetNode(a, p).percentage = GetNode(b, p).percentage
          /\ GetNode(a, p).rect = GetNode(b, p).rect
          /\ GetNode(a, p).margin = GetNode(b, p).margin

\* a motion at xy with the modifiers `state` starts a preview on t
StartsPreview(t, snap, xy, state) ==
    /\ NonePreview(t)
    /\ ~NonePreview(PreviewOnMotion(t, snap, xy[1], xy[2], state[1], state[2]).tree)

\* the tree after the preview started at xy is cancelled by a key release
CancelledByKeyRelease(t, snap, xy, state) ==
    Only({PreviewOnKeyRelease(s.tree, s.snap, state[1], state[2]).tree :
            s \in {PreviewOnMotion(t, snap, xy[1], xy[2], state[1], state[2])}})

\* the tree after the preview started at xy is cancelled by a motion
\* without modifier
CancelledByMotion(t, snap, xy, state) ==
    Only({PreviewOnMotion(s.tree, s.snap, xy[1], xy[2], FALSE, FALSE).tree :
            s \in {PreviewOnMotion(t, snap, xy[1], xy[2], state[1], state[2])}})

\* C6: starting a preview and cancelling it leaves every node's
\* percentage, children, rectangle and margin as they were before the
\* preview started, and no node isPreview.
C6_PreviewCancelRoundTrip ==
    \A xy \in SplitPointers, state \in Modifiers :
        StartsPreview(tree, prePreviewSnapshot, xy, state)
        => /\ SameLayout(CancelledByKeyRelease(tree, prePreviewSnapshot, xy, state), tree)
           /\ NonePreview(CancelledByKeyRelease(tree, prePreviewSnapshot, xy, state))
           /\ SameLayout(CancelledByMotion(tree, prePreviewSnapshot, xy, state), tree)
           /\ NonePreview(CancelledByMotion(tree, prePreviewSnapshot, xy, state))

\* C4: at every point of an interleaving of ResizeOperation and
\* PreviewSplitOperation events at most one node of the tree isResizing.
C4_AtMostOneResizing ==
    Cardinality({p \in Paths(tree) : GetNode(tree, p).isResizing}) <= 1

\* a preview was started while a node is resizing
C4_Witness ==
    /\ event.handler = "Preview.onMotion"
    /\ ~NonePreview(tree)
    /\ Cardinality({p \in Paths(tree) : GetNode(tree, p).isResizing}) = 1

\* C5: at every point of a sequence of PreviewSplitOperation events
\* interleaved with ResizeOperation events at most one node of the tree
\* isPreview.
C5_AtMostOnePreview ==
    Cardinality({p \in Paths(tree) : GetNode(tree, p).isPreview}) <= 1

\* a divider was grabbed while a preview is shown
C5_Witness ==
    /\ event.handler = "Resize.onButtonPress"
    /\ ~NoneResizing(tree)
    /\ Cardinality({p \in Paths(tree) : GetNode(tree, p).isPreview}) = 1

\* the handlers of the five operations at the tree, with every input
HandlerResults ==
    {ResizeOnButtonPress(tree, xy[1], xy[2], button) :
        xy \in SplitPointers, button \in Buttons}
    \cup {ResizeOnButtonRelease(tree, xy[1], xy[2], button) :
        xy \in SplitPointers, button \in Buttons}
    \cup {ResizeOnMotion(tree, xy[1], xy[2]) : xy \in SplitPointers}
    \cup {ResizeCancel(tree), LayoutOperationDefault(tree)}
    \cup {MarginsOnKeyPress(tree, key) : key \in Keys}
    \cup {PresetOnKeyPress(tree, key) : key \in Keys}

PreviewHandlerResults ==
    {PreviewOnMotion(tree, prePreviewSnapshot, xy[1], xy[2], state[1], state[2]) :
        xy \in SplitPointers, state \in Modifiers}
    \cup {PreviewOnKeyPress(tree, prePreviewSnapshot, xy[1], xy[2], state[1], state[2]) :
        xy \in SplitPointers, state \in Modifiers}
    \cup {PreviewOnKeyRelease(tree, prePreviewSnapshot, state[1], state[2]) :
        state \in Modifiers}
    \cup {PreviewOnButtonPress(tree, prePreviewSnapshot, xy[1], xy[2],
                               state[1], state[2], button) :
        xy \in SplitPointers, state \in Modifiers, button \in Buttons}

SnappingHandlerResults ==
    {SnappingOnMotion(tree, showRegions, xy[1], xy[2], snappingEnabled) :
        xy \in SplitPointers, snappingEnabled \in BOOLEAN}
    \cup {SnappingCancel(tree, showRegions)}

\* C8: a handler of an operation that returns not-handled leaves the tree
\* and the state of the operation as they were before the call.
C8_NotHandledChangesNothing ==
    /\ \A r \in HandlerResults : r.result = NotHandled => r.tree = tree
    /\ \A r \in PreviewHandlerResults :
          r.result = NotHandled => r.tree = tree /\ r.snap = prePreviewSnapshot
    /\ \A r \in SnappingHandlerResults :
          r.result = NotHandled => r.tree = tree /\ r.showRegions = showRegions

\* cancel() of the SnappingOperation returned not-handled on a tree with a
\* highlighted node
C8_Witness ==
    /\ event.handler = "Snapping.cancel"
    /\ result = NotHandled
    /\ \E p \in Paths(tree) : GetNode(tree, p).isHighlighted

\* C10: fromJSON of toJSON rebuilds the shape, every percentage and every
\* margin of the tree; a sentinel is written as 99999 or -99999, and a
\* margin of 0 is not written.
C10_JsonRoundTrip ==
    /\ Paths(fromJSON(NewNode(Undefined), toJSON(tree))) = Paths(tree)
    /\ \A p \in Paths(tree) :
          /\ GetNode(fromJSON(NewNode(Undefined), toJSON(tree)), p).percentage
                = GetNode(tree, p).percentage
          /\ GetNode(fromJSON(NewNode(Undefined), toJSON(tree)), p).margin
                = GetNode(tree, p).margin
          /\ GetNode(tree, p).percentage = LastNodeXPercentage
                => toJSON(GetNode(tree, p)).percentage = 99999 * PctDen
          /\ GetNode(tree, p).percentage = LastNodeYPercentage
                => toJSON(GetNode(tree, p)).percentage = -(99999 * PctDen)
          /\ GetNode(tree, p).margin = 0 => toJSON(GetNode(tree, p)).margin = Undefined

\* the editor was opened on a saved layout with sentinels and margins
C10_Witness ==
    /\ event.handler = "openEditor"
    /\ file = <<toJSON(tree)>>
    /\ \E p \in Paths(tree) : GetNode(tree, p).margin = 1
    /\ \E p \in Paths(tree) : GetNode(tree, p).percentage = LastNodeYPercentage


\* ------------------------------------------------------------------------
\* A node on its own: insertChild on the node and delete below it

\* the percentages inserted: rows and columns, none a sentinel
InsertPercentages == {-PctDen, -(PctDen \div 2), PctDen \div 4, PctDen \div 2,
                      (3 * PctDen) \div 4}

\* the model stops inserting at MaxChildren children
MaxChildren == 4

\* the node delete(node) is called with: a node below the receiver (its
\* index among the receiver's children and, one level down, among that
\* child's children), the receiver itself, or a node of no tree
DeletedPath(e) ==
    IF e.input = "descendant"
    THEN IF e.y = 0 THEN <<e.x>> ELSE <<e.x, e.y>>
    ELSE IF e.input = "receiver" THEN <<>> ELSE NoPath

PathEvent(p) ==
    IF p = <<>> THEN Event("delete", "receiver", <<0, 0>>)
    ELSE IF p = NoPath THEN Event("delete", "foreign", <<0, 0>>)
    ELSE Event("delete", "descendant", <<p[1], IF Len(p) >= 2 THEN p[2] ELSE 0>>)

InitNode ==
    /\ tree \in {NewNode(0), clone(LayoutOf2x2), clone(LayoutOf3x2), clone(LayoutOf3x3)}
    /\ prePreviewSnapshot = <<>>
    /\ showRegions = FALSE
    /\ layouts = <<>>
    /\ objects = <<>>
    /\ file = <<>>
    /\ event = Event("none", "none", NoXY)
    /\ result = NotHandled

\* this.insertChild(new LayoutNode(percentage)) on the node
InsertChild ==
    \E percentage \in InsertPercentages :
        /\ Len(tree.children) < MaxChildren
        /\ tree' = insertChild(tree, NewNode(percentage), "owner")
        /\ event' = Event("insertChild", "none", NoXY)
        /\ UNCHANGED <<prePreviewSnapshot, showRegions, file, result, layouts, objects>>

\* this.delete(node)
DeleteNode ==
    \E p \in Paths(tree) \cup {NoPath} :
        /\ tree' = delete(tree, p)
        /\ result' = Returned(deleteResult(tree, p))
        /\ event' = PathEvent(p)
        /\ UNCHANGED <<prePreviewSnapshot, showRegions, file, layouts, objects>>

NextNode ==
    \/ InsertChild
    \/ DeleteNode

SpecNode == InitNode /\ [][NextNode]_vars

\* ------------------------------------------------------------------------
\* The window snapper: a window is dragged over the layout of the display

\* pointer positions while a window is dragged: inside the four leaves of
\* the 2x2 layout, on the corner they share, and outside the work area
SnapPointers == {<<250, 200>>, <<250, 600>>, <<750, 200>>, <<750, 600>>,
                 <<500, 400>>, <<-50, -40>>}

\* the layout of the display, with the margin the editor left on its nodes
InitSnap ==
    \E layout \in {LayoutOf2x2, LayoutOf3x2, LayoutOf2x3, LayoutOf3x3, NewNode(0)},
       margin \in 0..MaxMargin :
        LET SetLayoutMargin(n) == SetMargin(n, margin)
        IN InitWith(forDescendants(clone(layout), SetLayoutMargin))

NextSnap ==
    \/ SnappingMotion(SnapPointers)
    \/ SnappingCancelled

SpecSnap == InitSnap /\ [][NextSnap]_vars

\* ------------------------------------------------------------------------
\* The layout file of the display: what the application finds there, what
\* it loads from it and what it saves to it

JsonNode(percentage, children) ==
    [children |-> children, percentage |-> percentage, margin |-> Undefined]

JsonLeaf(percentage) == JsonNode(percentage, <<>>)

\* the documents found in the file: layouts the application wrote, and
\* documents written by hand with a single child, with a first child out
\* of range or without a percentage, with a last child that is no sentinel
\* or has no percentage, and with such a node one level down
StoredDocuments ==
    {toJSON(LayoutOf2x2), toJSON(NewNode(0)),
     JsonNode(0, <<JsonLeaf(LastNodeXPercentageJson)>>),
     JsonNode(0, <<JsonLeaf((3 * PctDen) \div 2), JsonLeaf(LastNodeXPercentageJson)>>),
     JsonNode(0, <<JsonLeaf(-2 * PctDen), JsonLeaf(LastNodeYPercentageJson)>>),
     JsonNode(0, <<JsonLeaf(Undefined), JsonLeaf(LastNodeXPercentageJson)>>),
     JsonNode(0, <<JsonLeaf(PctDen \div 2), JsonLeaf((3 * PctDen) \div 4)>>),
     JsonNode(0, <<JsonLeaf(PctDen \div 2), JsonLeaf(Undefined)>>),
     JsonNode(Undefined, <<JsonLeaf(PctDen \div 2), JsonLeaf(LastNodeXPercentageJson)>>),
     JsonNode(0, <<JsonNode(PctDen \div 2,
                            <<JsonLeaf((3 * PctDen) \div 2), JsonLeaf(LastNodeXPercentageJson)>>),
                   JsonLeaf(LastNodeXPercentageJson)>>),
     JsonNode(0, <<JsonNode(PctDen \div 2,
                            <<JsonLeaf(Undefined), JsonLeaf(LastNodeYPercentageJson)>>),
                   JsonLeaf(LastNodeXPercentageJson)>>)}

\* the file: missing, unparsable, or holding a document
StoredFiles == {<<>>, <<Unparsable>>} \cup {<<json>> : json \in StoredDocuments}

\* where a divider is grabbed and where it is dragged to
DragFrom == {<<500, 200>>, <<250, 800>>}
DragTo == {<<250, 200>>, <<50, 200>>, <<750, 600>>}

\* every node has a number as its percentage (the geometry of a tree with
\* an absent percentage is not a number and is left out)
AllPresent(t) == \A p \in Paths(t) : GetNode(t, p).percentage # Undefined

InitFiles ==
    /\ tree = clone(LayoutOf2x2)
    /\ prePreviewSnapshot = <<>>
    /\ showRegions = FALSE
    /\ layouts = <<>>
    /\ objects = <<>>
    /\ file \in StoredFiles
    /\ event = Event("none", "none", NoXY)
    /\ result = NotHandled

\* the application starts again and reads the layout of the display
LoadLayout ==
    /\ tree' = readOrCreateLayoutForDisplay(file)
    /\ result' = IF loadLayoutForDisplay(file) = <<>> THEN "null" ELSE "layout"
    /\ prePreviewSnapshot' = <<>>
    /\ showRegions' = FALSE
    /\ event' = Event("loadLayoutForDisplay", "none", NoXY)
    /\ UNCHANGED <<file, layouts, objects>>

\* the editor is opened on the layout, and a divider is grabbed with the
\* primary button, dragged and released
DragDivider ==
    \E from \in DragFrom, to \in DragTo :
        /\ AllPresent(tree)
        /\ \E opened \in {calculateRectsIn(tree, WorkArea.x, WorkArea.y,
                                            WorkArea.width, WorkArea.height)} :
           \E pressed \in {ResizeOnButtonPress(opened, from[1], from[2], "primary")} :
           \E moved \in {ResizeOnMotion(pressed.tree, to[1], to[2])} :
           \E released \in {ResizeOnButtonRelease(moved.tree, to[1], to[2], "primary")} :
              /\ tree' = released.tree
              /\ result' = released.result
        /\ event' = Event("Resize.onButtonRelease", "primary", NoXY)
        /\ UNCHANGED <<prePreviewSnapshot, showRegions, file, layouts, objects>>

NextFiles ==
    \/ LoadLayout
    \/ DragDivider
    \/ SaveLayout

SpecFiles == InitFiles /\ [][NextFiles]_vars

\* ------------------------------------------------------------------------
\* C11: insertChild keeps the children of a node in ascending order of
\* abs(percentage), for any sequence of insertions of non-sentinel
\* percentages and whatever the children were before, an empty list
\* included
AscendingAbs(children) ==
    \A i \in 1..(Len(children) - 1) :
        Abs(children[i].percentage) <= Abs(children[i + 1].percentage)

C11_InsertKeepsOrder == AscendingAbs(tree.children)

\* C12: delete(node) empties the children of a parent of exactly two,
\* removes exactly the node from a parent of three or more and keeps the
\* order of the others, and returns true; for a node that is not a
\* descendant it returns false and leaves the tree unchanged
DeleteContract(t, p, after, returned) ==
    IF p # <<>> /\ p # NoPath
    THEN LET before == GetNode(t, Front(p)).children
             now == GetNode(after, Front(p)).children
             k == p[Len(p)]
         IN /\ returned = "true"
            /\ Len(before) = 2 => Len(now) = 0
            /\ Len(before) >= 3 =>
                  /\ Len(now) = Len(before) - 1
                  /\ \A i \in 1..Len(now) :
                        now[i] = IF i < k THEN before[i] ELSE before[i + 1]
    ELSE returned = "false" /\ after = t

C12_DeleteContract ==
    [][event'.handler = "delete" =>
          DeleteContract(tree, DeletedPath(event'), tree', result')]_vars

C12_Witness ==
    /\ event.handler = "delete"
    /\ event.input = "descendant"
    /\ result = "true"
    /\ Len(tree.children) = 0

\* the divider widths probed: the width ResizeOperation uses and one that
\* twice the margin exceeds
DividerWidths == {dividerWidth, 0}

\* distances from the right edge of a node, and the points probed around
\* the node: across its right edge, and from above its top to below its
\* bottom
EdgeOffsets == {-21, -20, -15, -11, -10, -3, -2, -1, 0, 1, 2, 3, 10, 11, 15, 20, 21}

ProbeX(n) == {n.rect.x + n.rect.width + d : d \in EdgeOffsets}

ProbeY(n) == {n.rect.y - 1, n.rect.y, n.rect.y + n.rect.height \div 2,
              n.rect.y + n.rect.height, n.rect.y + n.rect.height + 1}

ColumnNodes(t) == {p \in Paths(t) : p # <<>> /\ isColumn(GetNode(t, p))}

\* the point is within `reach` of the right edge of n, doubled to stay in
\* whole pixels, and within the vertical span of n
InBand(n, x, y, reach2) ==
    /\ 2 * Abs(x - (n.rect.x + n.rect.width)) <= reach2
    /\ y >= n.rect.y
    /\ y <= n.rect.y + n.rect.height

\* whether findDividerAtPosition on n matches the divider of n itself
MatchesOwnDivider(n, x, y, w) == findDividerAtPosition(n, x, y, w) = <<>>

\* C13 as stated: the divider of a non-root column node is matched at
\* every point within max(dividerWidth, 2 * margin) of its right edge and
\* within its vertical span, and nowhere else
C13_DividerBandFull ==
    \A p \in ColumnNodes(tree) : \A w \in DividerWidths :
        LET n == GetNode(tree, p)
        IN \A x \in ProbeX(n), y \in ProbeY(n) :
              MatchesOwnDivider(n, x, y, w) <=>
                  InBand(n, x, y, 2 * Max(w, 2 * n.margin))

\* C13: the divider of a non-root column node is matched at every point
\* within half of max(dividerWidth, 2 * margin) of its right edge and
\* within its vertical span, and nowhere else
C13_DividerBand ==
    \A p \in ColumnNodes(tree) : \A w \in DividerWidths :
        LET n == GetNode(tree, p)
        IN \A x \in ProbeX(n), y \in ProbeY(n) :
              MatchesOwnDivider(n, x, y, w) <=>
                  InBand(n, x, y, Max(w, 2 * n.margin))

\* a column node whose margin decides the width of its divider
C13_Witness ==
    \E p \in ColumnNodes(tree) :
        LET n == GetNode(tree, p)
        IN /\ n.margin > 0
           /\ n.rect.width > 0
           /\ MatchesOwnDivider(n, n.rect.x + n.rect.width - n.margin, n.rect.y, 0)

\* the percentage of every node, in pre-order
Percentages(t) == [i \in DOMAIN PreOrder(t) |-> GetNode(t, PreOrder(t)[i]).percentage]

LeafPaths(t) == SelectSeq(PreOrder(t), LAMBDA p : isLeaf(GetNode(t, p)))

\* the rectangles of the leaves, in pre-order
LeafRects(t) == [i \in DOMAIN LeafPaths(t) |-> GetNode(t, LeafPaths(t)[i]).rect]

\* root with two column children at 0.5 and sentinel, each with two row
\* children at -0.5 and sentinel
IsDefault2x2(t) ==
    /\ Len(t.children) = 2
    /\ \A i \in 1..2 : Len(t.children[i].children) = 2
    /\ \A i \in 1..2 : \A j \in 1..2 : isLeaf(t.children[i].children[j])
    /\ Percentages(t) = <<t.percentage,
                          PctDen \div 2, -(PctDen \div 2), LastNodeYPercentage,
                          LastNodeXPercentage, -(PctDen \div 2), LastNodeYPercentage>>

\* C14: calculateRects(0, 0, 1000, 800) on the default 2x2 layout gives the
\* four leaves, in pre-order, the rectangles {0,0,500,400}, {0,400,500,400},
\* {500,0,500,400} and {500,400,500,400}
C14_Default2x2Rects ==
    /\ Percentages(LayoutOf2x2) = <<0, PctDen \div 2, -(PctDen \div 2), LastNodeYPercentage,
                                    LastNodeXPercentage, -(PctDen \div 2), LastNodeYPercentage>>
    /\ event.handler = "PresetShortcut.onKeyPress" /\ event.input = "5" =>
          /\ IsDefault2x2(tree)
          /\ tree.rect = Rect(0, 0, 1000, 800)
          /\ LeafRects(tree) = <<Rect(0, 0, 500, 400), Rect(0, 400, 500, 400),
                                 Rect(500, 0, 500, 400), Rect(500, 400, 500, 400)>>

C14_Witness ==
    /\ event.handler = "PresetShortcut.onKeyPress"
    /\ event.input = "5"
    /\ IsDefault2x2(tree)
    /\ Len(LeafRects(tree)) = 4

\* the percentages _startPreview is called with: the pointer at 0, 25 and
\* 70 percent of the width of the root for a column split, and of its
\* height for a row split
SplitPercentages(t) ==
    {PercentageOfX(t, t.rect.x + d) : d \in {0, 250, 700}}
        \cup {PercentageOfY(t, t.rect.y + d) : d \in {0, 200, 560}}

\* the axis of the split that a percentage asks for
SplitAxis(percentage) == IF percentage >= 0 THEN AxisX ELSE AxisY

\* the node at np is an internal node of exactly two children: the preview
\* node at the percentage, then a filler with the sentinel of the axis of
\* the split and the margin of the leaf that was split
SplitInTwo(after, leaf, percentage) ==
    /\ Len(after.children) = 2
    /\ after.children[1].isPreview
    /\ after.children[1].percentage = percentage
    /\ ~after.children[2].isPreview
    /\ after.children[2].percentage = LastNodePercentages[SplitAxis(percentage) + 1]
    /\ after.children[2].margin = leaf.margin
    /\ isLeaf(after.children[1]) /\ isLeaf(after.children[2])
    /\ SplitAxis(percentage) = AxisX =>
          /\ after.children[2].percentage = LastNodeXPercentage
          /\ toJSON(after.children[2]).percentage = LastNodeXPercentageJson

\* C15: starting a preview split over a leaf whose axis differs from the
\* axis of the split, or which has no parent, makes the leaf an internal
\* node of exactly two children: the preview node at the pointer fraction,
\* then a filler with the sentinel of the same axis and the leaf's margin
C15_StartPreviewSplitsLeaf ==
    findNode(tree, IsPreviewNode) = NoPath =>
        \A np \in Paths(tree) : \A percentage \in SplitPercentages(tree) :
            LET leaf == GetNode(tree, np)
                started == startPreview(tree, np, percentage)
            IN (isLeaf(leaf) /\ (axis(leaf) # SplitAxis(percentage) \/ leaf.parent = "null")) =>
                  /\ started.previewNode = Append(np, 1)
                  /\ SplitInTwo(GetNode(started.tree, np), leaf, percentage)

\* a preview split has just turned the root leaf into two children
C15_Witness ==
    /\ event.handler = "Preview.onMotion"
    /\ Len(tree.children) = 2
    /\ tree.children[1].isPreview
    /\ IsInfinite(tree.children[2].percentage)
    /\ isLeaf(tree.children[1]) /\ isLeaf(tree.children[2])

SnappingDestinations(t) == {p \in Paths(t) : GetNode(t, p).isSnappingDestination}

Highlighted(t) == {p \in Paths(t) : GetNode(t, p).isHighlighted}

\* the leaves whose rectangle contains the point
LeavesAt(t, x, y) == {p \in Paths(t) : isLeaf(GetNode(t, p)) /\ InRect(x, y, GetNode(t, p).rect)}

\* C16: after onMotion with snapping enabled at a point inside some leaf,
\* exactly one node is the snapping destination, exactly one is
\* highlighted, it is the leaf containing the pointer, and showRegions is
\* true
C16_OneSnappingDestination ==
    [][(/\ event'.handler = "Snapping.onMotion"
        /\ event'.input = "enabled"
        /\ LeavesAt(tree, event'.x, event'.y) # {}) =>
          /\ showRegions'
          /\ Cardinality(SnappingDestinations(tree')) = 1
          /\ Highlighted(tree') = SnappingDestinations(tree')
          /\ SnappingDestinations(tree') \subseteq LeavesAt(tree', event'.x, event'.y)]_vars

\* the destination has moved from one leaf to another
C16_Witness ==
    /\ event.handler = "Snapping.onMotion"
    /\ event.input = "enabled"
    /\ event.x = 750 /\ event.y = 600
    /\ showRegions
    /\ SnappingDestinations(tree) # {}
    /\ SnappingDestinations(tree) = LeavesAt(tree, 750, 600)

\* C17: currentSnapToRect() is null when no node is the snapping
\* destination, and otherwise the rectangle of the marked leaf shrunk by
\* its margin on all four sides
C17_SnapRectInset ==
    IF SnappingDestinations(tree) = {}
    THEN currentSnapToRect(tree) = <<>>
    ELSE \E p \in SnappingDestinations(tree) :
            LET n == GetNode(tree, p)
            IN /\ isLeaf(n)
               /\ currentSnapToRect(tree) =
                     <<[x |-> n.rect.x + n.margin, y |-> n.rect.y + n.margin,
                        width |-> n.rect.width - 2 * n.margin,
                        height |-> n.rect.height - 2 * n.margin]>>

C17_Witness ==
    \E p \in SnappingDestinations(tree) :
        /\ GetNode(tree, p).margin > 0
        /\ currentSnapToRect(tree) # <<>>
        /\ currentSnapToRect(tree)[1].width < GetNode(tree, p).rect.width

\* the call behaves as cancel(): cancel() itself, or onMotion with snapping
\* not enabled or over no leaf
ActsAsSnappingCancel(e, t) ==
    \/ e.handler = "Snapping.cancel"
    \/ /\ e.handler = "Snapping.onMotion"
       /\ (e.input = "disabled" \/ LeavesAt(t, e.x, e.y) = {})

\* C18: cancel() returns handled+redraw exactly when showRegions was true,
\* and then showRegions is false and no node is a snapping destination or
\* highlighted; otherwise it returns not-handled; after it
\* currentSnapToRect() is null, and a second cancel is not-handled
C18_SnappingCancelOnce ==
    [][ActsAsSnappingCancel(event', tree) =>
          /\ (result' = HandledAndRedraw) <=> showRegions
          /\ (result' = NotHandled) <=> ~showRegions
          /\ ~showRegions'
          /\ showRegions => (SnappingDestinations(tree') = {} /\ Highlighted(tree') = {})
          /\ currentSnapToRect(tree') = <<>>
          /\ SnappingCancel(tree', showRegions').result = NotHandled]_vars

\* a cancel has cleared the regions that a motion had shown
C18_Witness ==
    /\ ActsAsSnappingCancel(event, tree)
    /\ result = HandledAndRedraw
    /\ ~showRegions
    /\ SnappingDestinations(tree) = {}

\* the file is missing or unparsable, or the tree read from it fails the
\* integrity check
Rejected(f) ==
    \/ f = <<>>
    \/ ~IsParsable(f[1])
    \/ ~IntegrityOk(fromJSON(NewNode(Undefined), f[1]))

\* C19: saving a tree whose getIntegrityError() is not null writes nothing
\* and returns false; loading a file that is missing, unparsable or whose
\* tree fails the integrity check returns null, and the caller takes the
\* default layout
C19_NoInvalidTreeStored ==
    [][
        /\ event'.handler = "saveLayoutForDisplay" =>
              IF IntegrityOk(tree)
              THEN (result' = "true" /\ file' = <<toJSON(tree)>>)
              ELSE (result' = "false" /\ file' = file)
        /\ event'.handler = "loadLayoutForDisplay" =>
              /\ IntegrityOk(tree')
              /\ IF Rejected(file)
                 THEN (result' = "null" /\ tree' = clone(LayoutOf2x2))
                 ELSE (result' = "layout" /\ toJSON(tree') = file[1])
    ]_vars

\* a tree that fails the integrity check was not saved over a file that
\* is rejected when read
C19_Witness ==
    /\ event.handler = "saveLayoutForDisplay"
    /\ result = "false"
    /\ ~IntegrityOk(tree)
    /\ file # <<>>
    /\ Rejected(file)

\* no node has exactly one child, every child except the last has a
\* percentage that is present and lies in [-1, 1], and every last child has
\* a sentinel as its percentage
RECURSIVE WellFormed(_)
WellFormed(n) ==
    /\ Len(n.children) # 1
    /\ \A i \in 1..(Len(n.children) - 1) :
          /\ n.children[i].percentage # Undefined
          /\ n.children[i].percentage >= -PctDen
          /\ n.children[i].percentage <= PctDen
    /\ Len(n.children) >= 1 =>
          n.children[Len(n.children)].percentage \in {LastNodeXPercentage, LastNodeYPercentage}
    /\ \A i \in DOMAIN n.children : WellFormed(n.children[i])

\* C20: getIntegrityError() returns null only for well-formed trees; a tree
\* read from a file with a non-last child whose percentage is absent or
\* outside [-1, 1] gets a description of the error, so it is never the
\* layout that was loaded
C20_IntegrityMeansWellFormed ==
    (event.handler = "loadLayoutForDisplay" /\ IntegrityOk(tree)) => WellFormed(tree)

\* ------------------------------------------------------------------------
\* The editor opened on the default layout, the pointer leaving the work
\* area
\*
\* The pointer events of the editor carry the position of the pointer on
\* the stage; nothing keeps it inside the rectangle of the root, which is
\* the work area of one display.

\* pointer positions: on the column divider (and in the upper left leaf),
\* on the row divider of the left column, in the lower right leaf, and
\* above and left of the work area
DragPointers == {<<500, 200>>, <<250, 400>>, <<750, 600>>, <<-800, -640>>}

\* a divider of the default layout is dragged
NextDrag ==
    \/ ResizeButtonPress(DragPointers)
    \/ ResizeButtonRelease(DragPointers)
    \/ ResizeMotion(DragPointers)

SpecDrag == Init /\ [][NextDrag]_vars

\* pointer positions: in the upper left leaf, in the lower right leaf, and
\* above and left of the work area
HoverPointers == {<<250, 200>>, <<750, 600>>, <<-800, -640>>}

\* the model stops splitting the default layout at MaxNodesHover nodes
MaxNodesHover == 9

\* the leaves of the default layout are split
NextHover ==
    \/ PreviewMotion(HoverPointers, MaxNodesHover)
    \/ PreviewKeyPress(HoverPointers, MaxNodesHover)
    \/ PreviewKeyRelease
    \/ PreviewButtonPress(HoverPointers, MaxNodesHover)

SpecHover == Init /\ [][NextHover]_vars

\* ------------------------------------------------------------------------
\* Properties of the editing operations

\* C21: in every state reached by preview (start, finalize, cancel),
\* divider-delete and resize events from a valid tree every node has no
\* child or at least two children.
C21_NoSingleChild == \A p \in Paths(tree) : Len(GetNode(tree, p).children) # 1

\* a divider of a node with three children was deleted
C21_Witness ==
    /\ event.handler = "Resize.onButtonPress"
    /\ event.input = "secondary"
    /\ result = HandledAndRedraw
    /\ NoneResizing(tree)
    /\ Len(tree.children) = 2
    /\ NodeCount(tree) = 3

\* C22: in every state reached by editing events (resize start, motion
\* and stop, preview start, motion, finalize and cancel, divider delete)
\* from a valid tree the children of every node are in ascending order of
\* abs(percentage).
C22_ChildrenStaySorted ==
    \A p \in Paths(tree) : AscendingAbs(GetNode(tree, p).children)

\* C23: starting from a tree that passes validateRects(), after every
\* event handled by the ResizeOperation or the PreviewSplitOperation the
\* whole tree passes validateRects() again (no node has a width or a
\* height <= 100), and the handler returned an OperationResult or null.
C23_RectsStayValid ==
    /\ validateRects(tree)
    /\ result \in {NotHandled, Handled, HandledAndRedraw}

\* the children of every node have one common axis
CommonAxis(t) ==
    \A p \in Paths(t) :
        \A i, j \in DOMAIN GetNode(t, p).children :
            axis(GetNode(t, p).children[i]) = axis(GetNode(t, p).children[j])

\* the node a motion moves: the resizing node for the ResizeOperation, the
\* preview node for the PreviewSplitOperation
MovedNode(handler, t) ==
    IF handler = "Resize.onMotion" THEN findNode(t, IsResizingNode)
    ELSE IF handler = "Preview.onMotion" THEN findNode(t, IsPreviewNode)
    ELSE NoPath

\* C24: a motion while resizing or previewing keeps the sign convention
\* for every pointer position, positions outside the rectangle of the root
\* included: the moved node keeps its axis (a row node keeps a
\* percentage <= 0, a column node a percentage >= 0), and the children of
\* every node keep one common axis.
C24_MotionKeepsAxis ==
    [][
       (/\ MovedNode(event'.handler, tree) # NoPath
        /\ CommonAxis(tree)
        /\ Paths(tree') = Paths(tree)
        /\ MovedNode(event'.handler, tree') = MovedNode(event'.handler, tree))
       => /\ axis(GetNode(tree', MovedNode(event'.handler, tree)))
                = axis(GetNode(tree, MovedNode(event'.handler, tree)))
          /\ CommonAxis(tree')
      ]_vars

\* path a is the path of b or of an ancestor of b
IsPrefix(a, b) == Len(a) <= Len(b) /\ SubSeq(b, 1, Len(a)) = a

\* the parent of the preview node of t
PreviewParent(t) == Front(findNode(t, IsPreviewNode))

\* the leaf at the pointer is the parent of the preview node or one of its
\* descendants
InsidePreviewParent(t, xy) ==
    /\ findNodeAtPosition(t, xy[1], xy[2]) # NoPath
    /\ IsPrefix(PreviewParent(t), findNodeAtPosition(t, xy[1], xy[2]))

\* what the events that _handlePreview processes give at the pointer xy
\* with the modifiers `state`: a motion, a key press, a press of the
\* secondary button
HandlePreviewResults(t, snap, xy, state) ==
    {PreviewOnMotion(t, snap, xy[1], xy[2], state[1], state[2]),
     PreviewOnKeyPress(t, snap, xy[1], xy[2], state[1], state[2]),
     PreviewOnButtonPress(t, snap, xy[1], xy[2], state[1], state[2], "secondary")}

\* r is t with the preview cancelled: the tree is the snapshot and no node
\* isPreview
PreviewCancelled(r, snap) ==
    /\ NonePreview(r.tree)
    /\ r.snap = <<>>
    /\ SameLayout(r.tree, snap[1])

\* r is t with nothing but the preview divider moved
PreviewMoved(r, t, snap) ==
    /\ r.snap = snap
    /\ Paths(r.tree) = Paths(t)
    /\ findNode(r.tree, IsPreviewNode) = findNode(t, IsPreviewNode)
    /\ \A p \in Paths(t) \ {findNode(t, IsPreviewNode)} :
          GetNode(r.tree, p).percentage = GetNode(t, p).percentage

\* C25: while a preview is active, an event processed by _handlePreview
\* with the pointer outside the subtree of the preview node's parent, or
\* with neither preview modifier held, cancels the preview (the tree is
\* the snapshot, no node isPreview); an event with the pointer inside that
\* subtree and a preview modifier held only moves the preview divider.
C25_PreviewCancelledOutOfBounds ==
    (findNode(tree, IsPreviewNode) # NoPath /\ prePreviewSnapshot # <<>>)
    => \A xy \in HoverPointers, state \in Modifiers :
          \A r \in HandlePreviewResults(tree, prePreviewSnapshot, xy, state) :
             IF ~InsidePreviewParent(tree, xy) \/ ~(state[1] \/ state[2])
             THEN PreviewCancelled(r, prePreviewSnapshot)
             ELSE PreviewMoved(r, tree, prePreviewSnapshot)

\* a preview is shown and can be rolled back
PreviewActive == findNode(tree, IsPreviewNode) # NoPath /\ prePreviewSnapshot # <<>>

\* C26 as claimed: a key release delivered while a preview is active with
\* a modifier state in which neither preview modifier is held reverts the
\* tree to the pre-preview snapshot and leaves no node isPreview.
C26_KeyReleaseWithoutModifiers ==
    PreviewActive
    => PreviewCancelled(PreviewOnKeyRelease(tree, prePreviewSnapshot, FALSE, FALSE),
                        prePreviewSnapshot)

\* C26: a key release delivered while a preview is active with a modifier
\* state that holds a preview modifier (the state of the release event of
\* a modifier key still holds that modifier) reverts the tree to the
\* pre-preview snapshot, leaves no node isPreview and returns handled and
\* redraw, wherever the pointer is; with a state that holds neither
\* modifier it returns not-handled and changes nothing.
C26_KeyReleaseCancels ==
    PreviewActive
    => \A state \in Modifiers :
          \A r \in {PreviewOnKeyRelease(tree, prePreviewSnapshot, state[1], state[2])} :
             IF state[1] \/ state[2]
             THEN /\ PreviewCancelled(r, prePreviewSnapshot)
                  /\ r.tree = revert(tree, prePreviewSnapshot[1])
                  /\ r.result = HandledAndRedraw
             ELSE /\ r.tree = tree
                  /\ r.snap = prePreviewSnapshot
                  /\ r.result = NotHandled

\* a key was released while a preview is shown, the handler returned
\* not-handled and the preview is still shown
C26_Witness ==
    /\ event.handler = "Preview.onKeyRelease"
    /\ result = NotHandled
    /\ PreviewActive

\* nothing that cancels a preview changes t once the snapshot is snap: a
\* key release with any modifier state, _cancel(), a motion without
\* modifier
NothingToCancel(t, snap) ==
    /\ \A state \in Modifiers :
          /\ PreviewOnKeyRelease(t, snap, state[1], state[2]).tree = t
          /\ PreviewOnKeyRelease(t, snap, state[1], state[2]).snap = <<>>
    /\ previewCancel(t, snap).tree = t
    /\ \A xy \in SplitPointers :
          PreviewOnMotion(t, snap, xy[1], xy[2], FALSE, FALSE).tree = t

\* C27: a press of the primary button while a preview is active and
\* validateRects() passes commits the split: afterwards isPreview is false
\* and originalRect is null on every node, the rollback snapshot is
\* discarded and the nodes of the split are all there.  No later key
\* release, modifier release or cancel removes them or restores the
\* pre-preview tree: as long as there is no snapshot nothing that cancels
\* a preview changes the tree, and a snapshot taken later has every node
\* of the tree it is taken of.
C27_FinalizeCommits ==
    [][
       /\ (/\ event'.handler = "Preview.onButtonPress"
           /\ event'.input = "primary"
           /\ findNode(tree, IsPreviewNode) # NoPath
           /\ validateRects(tree))
          => (/\ NonePreview(tree')
              /\ \A p \in Paths(tree') : GetNode(tree', p).originalRect = <<>>
              /\ prePreviewSnapshot' = <<>>
              /\ SameLayout(tree', tree)
              /\ result' = HandledAndRedraw)
       /\ (prePreviewSnapshot' = <<>>)
          => NothingToCancel(tree', prePreviewSnapshot')
       /\ (prePreviewSnapshot = <<>> /\ prePreviewSnapshot' # <<>>)
          => Paths(prePreviewSnapshot'[1]) = Paths(tree)
      ]_vars

\* a preview was finalized: the split is part of the tree, its node still
\* highlighted, and there is no snapshot
C27_Witness ==
    /\ event.handler = "Preview.onButtonPress"
    /\ event.input = "primary"
    /\ result = HandledAndRedraw
    /\ NonePreview(tree)
    /\ prePreviewSnapshot = <<>>
    /\ NodeCount(tree) = 3
    /\ \E p \in Paths(tree) : GetNode(tree, p).isHighlighted

\* the preview node was inserted into the list `before` of the parent of
\* the leaf at index i, giving the list `after`, at index j
InsertedAsSibling(before, after, i, j, percentage) ==
    /\ Len(after) = Len(before) + 1
    /\ j \in 1..Len(before)
    /\ after[j].isPreview
    /\ after[j].percentage = percentage
    /\ isLeaf(after[j])
    \* the sorted position: after every child that is not greater, before
    \* the first that is
    /\ \A k \in 1..(j - 1) : Abs(before[k].percentage) <= Abs(percentage)
    /\ Abs(before[j].percentage) > Abs(percentage)
    /\ AscendingAbs(before) => AscendingAbs(after)
    \* the other children are the children there were, in their order
    /\ \A k \in 1..Len(before) :
          /\ after[IF k < j THEN k ELSE k + 1].percentage = before[k].percentage
          /\ after[IF k < j THEN k ELSE k + 1].children = before[k].children
    \* the leaf stays a leaf, the last child is still the sentinel
    /\ isLeaf(after[IF i < j THEN i ELSE i + 1])
    /\ after[Len(after)].percentage = before[Len(before)].percentage
    /\ IsInfinite(after[Len(after)].percentage)

\* C28: when a preview starts over a leaf that has a parent and the axis
\* of the split is the leaf's own axis, the preview node is inserted into
\* the leaf's parent at its sorted position: the parent has exactly one
\* child more, the leaf stays a leaf, the parent's last child is still
\* the sentinel.  In the other cases, and only then, the leaf becomes an
\* internal node.
C28_StartPreviewInsertsSibling ==
    (findNode(tree, IsPreviewNode) = NoPath /\ IntegrityOk(tree)) =>
        \A np \in Paths(tree) : \A percentage \in SplitPercentages(tree) :
            LET leaf == GetNode(tree, np)
                started == startPreview(tree, np, percentage)
            IN isLeaf(leaf) =>
                 IF leaf.parent # "null" /\ axis(leaf) = SplitAxis(percentage)
                 THEN /\ Front(started.previewNode) = Front(np)
                      /\ SetNode(started.tree, Front(np), GetNode(tree, Front(np))) = tree
                      /\ InsertedAsSibling(GetNode(tree, Front(np)).children,
                                           GetNode(started.tree, Front(np)).children,
                                           np[Len(np)],
                                           started.previewNode[Len(started.previewNode)],
                                           percentage)
                 ELSE ~isLeaf(GetNode(started.tree, np))

\* a preview has just been started as a sibling of the two rows of the
\* first column of the default layout
C28_Witness ==
    /\ event.handler = "Preview.onMotion"
    /\ Len(tree.children) = 2
    /\ Len(tree.children[1].children) = 3
    /\ Cardinality({i \in 1..3 : tree.children[1].children[i].isPreview}) = 1
    /\ \A i \in 1..3 : isLeaf(tree.children[1].children[i])
    /\ tree.children[1].children[3].percentage = LastNodeYPercentage
    /\ AscendingAbs(tree.children[1].children)

\* the tree while the node at p is wiggled: its percentage times 0.95
Wiggled(t, p) ==
    calculateRectsAgain(SetPercentage(t, p, WigglePercentage(GetNode(t, p).percentage)))

\* node `after` is node `before` but for isResizing, isHighlighted,
\* originalRect and the children
SameButResizeFlags(after, before) ==
    [after EXCEPT !.isResizing = FALSE, !.isHighlighted = FALSE,
                  !.originalRect = <<>>, !.children = <<>>]
        = [before EXCEPT !.isResizing = FALSE, !.isHighlighted = FALSE,
                         !.originalRect = <<>>, !.children = <<>>]

\* C29: after a press of the primary button has started resizing a node,
\* every node has the percentage and the rectangle it had before the press
\* (the wiggle by 5% is undone); only isResizing of that node and
\* isHighlighted and originalRect differ, and isHighlighted is true
\* exactly on the nodes whose rectangle differed during the wiggle.
C29_StartResizingOnlySetsFlags ==
    [][
       (/\ event'.handler = "Resize.onButtonPress"
        /\ event'.input = "primary"
        /\ NoneResizing(tree)
        /\ ~NoneResizing(tree'))
       => \A target \in {findNode(tree', IsResizingNode)} :
          \A wiggled \in {Wiggled(tree, target)} :
             /\ Paths(tree') = Paths(tree)
             /\ \A p \in Paths(tree) :
                   /\ GetNode(tree', p).percentage = GetNode(tree, p).percentage
                   /\ GetNode(tree', p).rect = GetNode(tree, p).rect
                   /\ SameButResizeFlags(GetNode(tree', p), GetNode(tree, p))
                   /\ GetNode(tree', p).isResizing = (p = target)
                   /\ GetNode(tree', p).originalRect = <<GetNode(tree, p).rect>>
                   /\ GetNode(tree', p).isHighlighted
                         = (GetNode(wiggled, p).rect # GetNode(tree, p).rect)
      ]_vars

\* resizing of the first column of the default layout has started: the
\* column and its rows, and the second column and its rows, are highlighted
C29_Witness ==
    /\ event.handler = "Resize.onButtonPress"
    /\ event.input = "primary"
    /\ result = HandledAndRedraw
    /\ Len(tree.children) = 2
    /\ tree.children[1].isResizing
    /\ tree.children[1].percentage = PctDen \div 2
    /\ tree.children[1].rect.width = 500
    /\ tree.children[1].isHighlighted
    /\ tree.children[2].isHighlighted
    /\ ~tree.isHighlighted

\* C30: when a node is resizing and ResizeOperation receives a primary
\* button release, or a primary or secondary button press, then afterwards
\* no node has isResizing, isHighlighted or an originalRect, and the event
\* has deleted no node and changed no percentage
StopsResizing(handler, button) ==
    \/ handler = "Resize.onButtonRelease" /\ button = "primary"
    \/ handler = "Resize.onButtonPress" /\ button \in {"primary", "secondary"}

C30_StopResizingClearsFlags ==
    [][
       StopsResizing(event'.handler, event'.input)
       => \A paths \in {Paths(tree)} :
             (\E p \in paths : GetNode(tree, p).isResizing)
             => /\ Paths(tree') = paths
                /\ \A p \in paths :
                      \A n \in {GetNode(tree', p)} :
                         /\ ~n.isResizing
                         /\ ~n.isHighlighted
                         /\ n.originalRect = <<>>
                         /\ n.percentage = GetNode(tree, p).percentage
      ]_vars

\* a secondary press has stopped a resize of the default layout's first
\* column after the divider was dragged: all seven nodes are still there
C30_Witness ==
    /\ event.handler = "Resize.onButtonPress"
    /\ event.input = "secondary"
    /\ result = HandledAndRedraw
    /\ Cardinality(Paths(tree)) = 7
    /\ tree.children[1].percentage # PctDen \div 2
    /\ \A p \in Paths(tree) :
          /\ ~GetNode(tree, p).isResizing
          /\ ~GetNode(tree, p).isHighlighted
          /\ GetNode(tree, p).originalRect = <<>>

\* ------------------------------------------------------------------------
\* The margin keys up to the clamp

\* MarginsOperation.onKeyPress where the clamp itself bounds the margins
MarginsKeyPressClamped(keys) ==
    \E key \in keys :
        \E r \in {MarginsOnKeyPress(tree, key)} :
           /\ tree' = r.tree
           /\ result' = r.result
           /\ event' = Event("Margins.onKeyPress", key, NoXY)
           /\ UNCHANGED <<prePreviewSnapshot, showRegions, file, layouts, objects>>

\* the editor on the default layout: margin keys and preset keys
NextMargins ==
    \/ MarginsKeyPressClamped(Keys)
    \/ PresetKeyPress(PresetKeysUsed)

SpecMargins == Init /\ [][NextMargins]_vars

\* C31: Page_Up / Page_Down changes the margin of every descendant of the
\* root by +1 / -1 clamped to [0, 20], recomputes the geometry and returns
\* handled+redraw; any other key returns not-handled; and every margin is
\* always an integer in [0, 20]
ClampedTo20(m) == IF m > 20 THEN 20 ELSE IF m < 0 THEN 0 ELSE m

MarginStep(key) == IF key = "Page_Up" THEN 1 ELSE -1

C31_MarginKeys ==
    /\ [](\A p \in Paths(tree) : GetNode(tree, p).margin \in 0..20)
    /\ [][
          event'.handler = "Margins.onKeyPress"
          => IF event'.input \in {"Page_Up", "Page_Down"}
             THEN /\ result' = HandledAndRedraw
                  /\ Paths(tree') = Paths(tree)
                  /\ \A p \in Paths(tree) \ {<<>>} :
                        GetNode(tree', p).margin
                           = ClampedTo20(GetNode(tree, p).margin + MarginStep(event'.input))
                  /\ calculateRectsAgain(tree') = tree'
             ELSE /\ result' = NotHandled
                  /\ tree' = tree
         ]_vars

\* Page_Up has been handled with the margins of the default layout's
\* regions at the upper clamp
C31_Witness ==
    /\ event.handler = "Margins.onKeyPress"
    /\ event.input = "Page_Up"
    /\ result = HandledAndRedraw
    /\ Len(tree.children) = 2
    /\ \A p \in Paths(tree) \ {<<>>} : GetNode(tree, p).margin = 20

\* C32: all nodes of the tree, the root included, have the same margin
C32_MarginUniform ==
    \A p \in Paths(tree) : GetNode(tree, p).margin = tree.margin

\* ------------------------------------------------------------------------
\* PresetShortcutOperation over a preset list of any length

\* a handler that ends with an uncaught TypeError
TypeError == "TypeError"

\* presets[i - 1]: the layout in a one-element sequence, or the empty
\* sequence where the list has no such slot (undefined)
PresetSlot(presets, i) == IF i <= Len(presets) THEN <<presets[i]>> ELSE <<>>

\* GridEditor.#usePreset(layout) as the callback: layout.clone() on
\* undefined throws before the tree is touched
onUsePreset(t, layout) ==
    IF layout = <<>>
    THEN [tree |-> t, thrown |-> TRUE]
    ELSE [tree |-> usePreset(t, layout[1]), thrown |-> FALSE]

\* onKeyPress(x, y, state, key) of an operation constructed with the given
\* preset list; invoked lists the arguments the callback was called with
PresetShortcutOnKeyPress(t, presets, key) ==
    IF \E i \in 1..Len(PresetKeys) : PresetKeys[i] = key
    THEN Only({Only({[tree |-> r.tree,
                      result |-> IF r.thrown THEN TypeError ELSE HandledAndRedraw,
                      invoked |-> <<layout>>] :
                     r \in {onUsePreset(t, layout)}}) :
               layout \in {PresetSlot(presets, PresetIndex(key))}})
    ELSE [tree |-> t, result |-> NotHandled, invoked |-> <<>>]

\* preset lists with no, five and all eight slots
PresetLists == {SubSeq(Presets, 1, n) : n \in {0, 5, 8}}

PresetKeyInputs == {"1", "5", "6", "8", "a"}

PresetShortcutKeyPress(lists, keys) ==
    \E presets \in lists, key \in keys :
        \E r \in {PresetShortcutOnKeyPress(tree, presets, key)} :
           /\ tree' = r.tree
           /\ result' = r.result
           /\ event' = Event("PresetShortcut.onKeyPress", key, NoXY)
           /\ UNCHANGED <<prePreviewSnapshot, showRegions, file, layouts, objects>>

NextPresets ==
    \/ PresetShortcutKeyPress(PresetLists, PresetKeyInputs)
    \/ MarginsKeyPress(Keys)

SpecPresets == Init /\ [][NextPresets]_vars

\* C33: onKeyPress with a designated key whose slot is absent from the
\* preset list does not invoke the callback; with a present slot it invokes
\* the callback exactly once with that preset; any other key returns
\* not-handled without invoking the callback
C33_AbsentSlotNotInvoked ==
    \A presets \in PresetLists, key \in PresetKeyInputs :
       \A r \in {PresetShortcutOnKeyPress(tree, presets, key)} :
          IF \E i \in 1..Len(PresetKeys) : PresetKeys[i] = key
          THEN IF PresetIndex(key) > Len(presets)
               THEN r.invoked = <<>>
               ELSE r.invoked = <<<<presets[PresetIndex(key)]>>>>
          ELSE r.result = NotHandled /\ r.invoked = <<>>

\* C34: calculateRects puts the far edge of every non-last child at
\* displayOrigin[axis] + 10 * round(|screenLength[axis] * percentage| / 10)
\* with ties rounded up, display being the rectangle of the root call; so
\* every stored divider lies at a multiple of 10 from the root's origin

\* work areas: the editor's, and one whose origin is not 0 and whose halves
\* fall on a tie
Displays == {WorkArea, Rect(30, 20, 1010, 790)}

\* the far edge of n lies at the tenfold of |length * percentage| / 10
\* rounded to the nearest integer, upwards from a half, beyond the origin
\* of display on the axis of n
EdgeRounded(n, display) ==
    LET ax == axis(n)
        edge == PosOnAxis(n.rect, ax) + LengthOnAxis(n.rect, ax) - PosOnAxis(display, ax)
        exact == Abs(LengthOnAxis(display, ax) * n.percentage)
    IN IF IsInfinite(n.percentage)
       THEN edge = LastNodeXPercentage
       ELSE /\ edge % 10 = 0
            /\ (edge - 5) * PctDen <= exact
            /\ exact < (edge + 5) * PctDen

NonLastChildren(t) ==
    {p \in Paths(t) \ {<<>>} : p[Len(p)] < Len(GetNode(t, Front(p)).children)}

C34_EdgesRounded ==
    /\ \A p \in NonLastChildren(tree) : EdgeRounded(GetNode(tree, p), tree.rect)
    /\ \A display \in Displays :
          \A t \in {calculateRectsIn(tree, display.x, display.y,
                                     display.width, display.height)} :
             \A p \in NonLastChildren(t) : EdgeRounded(GetNode(t, p), display)

\* a non-last child whose parent is shorter than the work area along the
\* child's axis, and a non-last child whose length falls on a tie in the
\* second work area
C34_Witness ==
    /\ \E p \in NonLastChildren(tree) :
          /\ ~IsInfinite(GetNode(tree, p).percentage)
          /\ LengthOnAxis(GetNode(tree, Front(p)).rect, axis(GetNode(tree, p)))
                < LengthOnAxis(tree.rect, axis(GetNode(tree, p)))
          /\ LengthOnAxis(GetNode(tree, p).rect, axis(GetNode(tree, p))) > 0
    /\ \E p \in NonLastChildren(tree) :
          /\ ~IsInfinite(GetNode(tree, p).percentage)
          /\ Abs(1010 * GetNode(tree, p).percentage) % (10 * PctDen) = 5 * PctDen

\* C35: after every event handled by an editing operation a further
\* calculateRects() on the root changes no node's rect
C35_RectsNeverStale ==
    result \in {Handled, HandledAndRedraw}
    => \A p \in Paths(tree) :
          GetNode(calculateRectsAgain(tree), p).rect = GetNode(tree, p).rect

\* ------------------------------------------------------------------------
\* The application: one layout per display

\* the work areas of two monitors side by side
MonitorWorkAreas == <<WorkArea, Rect(1000, 0, 1000, 800)>>

\* references: the module constant LayoutOf2x2, and per display the object
\* that LayoutOf2x2.clone() or the layout file gives a call made for it
ConstLayoutOf2x2 == "LayoutOf2x2"

NewObjectFor == <<"display0", "display1">>

\* #readOrCreateLayoutForDisplay(displayIdx, defaultLayout): the reference
\* it returns and stores in #layouts
readOrCreateLayoutRef(ls, f, displayIdx, defaultLayout) ==
    IF ls[displayIdx] # <<>> THEN ls[displayIdx][1]
    ELSE IF loadLayoutForDisplay(f) # <<>> THEN NewObjectFor[displayIdx]
    ELSE defaultLayout

\* the objects after the call: a loaded layout is a new object, and so is
\* the clone that the editor passes as default; a default that is an
\* existing object is stored as it is
readOrCreateObjects(ls, objs, f, displayIdx, defaultLayout) ==
    IF ls[displayIdx] # <<>> THEN objs
    ELSE IF loadLayoutForDisplay(f) # <<>>
    THEN (NewObjectFor[displayIdx] :> loadLayoutForDisplay(f)[1]) @@ objs
    ELSE IF defaultLayout \in DOMAIN objs THEN objs
    ELSE (defaultLayout :> clone(objs[ConstLayoutOf2x2])) @@ objs

\* new WindowSnapper(i, layout, ...) / new GridEditor(i, layout, ...):
\* layout.calculateRects(workArea.x, workArea.y, workArea.width, workArea.height)
LaidOutOn(objs, ref, workArea) ==
    [objs EXCEPT ![ref] = calculateRectsIn(@, workArea.x, workArea.y,
                                           workArea.width, workArea.height)]

\* the loop of the grab-op-begin handler from monitor i on; s holds
\* #layouts and the objects
RECURSIVE CreateWindowSnappers(_, _, _)
CreateWindowSnappers(i, s, f) ==
    IF i > Len(MonitorWorkAreas) THEN s
    ELSE CreateWindowSnappers(i + 1,
           Only({[layouts |-> [s.layouts EXCEPT ![i] = <<layout>>],
                  objects |-> LaidOutOn(readOrCreateObjects(s.layouts, s.objects, f, i,
                                                            ConstLayoutOf2x2),
                                        layout, MonitorWorkAreas[i])] :
                 layout \in {readOrCreateLayoutRef(s.layouts, f, i, ConstLayoutOf2x2)}}),
           f)

\* the application has started: no layout read yet, no layout file
InitDisplays ==
    /\ tree = LayoutOf2x2
    /\ prePreviewSnapshot = <<>>
    /\ showRegions = FALSE
    /\ file = <<>>
    /\ event = Event("none", "none", NoXY)
    /\ result = NotHandled
    /\ layouts = [i \in DOMAIN MonitorWorkAreas |-> <<>>]
    /\ objects = (ConstLayoutOf2x2 :> LayoutOf2x2)

\* the user starts moving a window: a WindowSnapper for each monitor
GrabOpBegin ==
    \E s \in {CreateWindowSnappers(1, [layouts |-> layouts, objects |-> objects], file)} :
       /\ layouts' = s.layouts
       /\ objects' = s.objects
       /\ tree' = s.objects[s.layouts[Len(MonitorWorkAreas)][1]]
       /\ event' = Event("grab-op-begin", "none", NoXY)
       /\ UNCHANGED <<prePreviewSnapshot, showRegions, file, result>>

\* what the editor on a display handles: a margin key, or a secondary
\* button press on the divider between the columns of the default layout
EditorInputs == {"Page_Up", "Page_Down", "secondary"}

EditorHandles(t, input) ==
    IF input = "secondary"
    THEN ResizeOnButtonPress(t, t.rect.x + (t.rect.width \div 2),
                             t.rect.y + (t.rect.height \div 4), "secondary")
    ELSE MarginsOnKeyPress(t, input)

\* the editor is opened on the focused display, handles one input and is
\* closed; the files #saveLayouts writes are of displays that #layouts
\* holds, which are not read again
EditDisplay ==
    \E i \in DOMAIN MonitorWorkAreas, input \in EditorInputs :
       \E layout \in {readOrCreateLayoutRef(layouts, file, i, NewObjectFor[i])} :
       \E opened \in {LaidOutOn(readOrCreateObjects(layouts, objects, file, i,
                                                    NewObjectFor[i]),
                                layout, MonitorWorkAreas[i])} :
       \E r \in {EditorHandles(opened[layout], input)} :
          /\ \A p \in Paths(r.tree) : GetNode(r.tree, p).margin <= MaxMargin
          /\ layouts' = [layouts EXCEPT ![i] = <<layout>>]
          /\ objects' = [opened EXCEPT ![layout] = r.tree]
          /\ tree' = r.tree
          /\ result' = r.result
          /\ event' = Event("openEditor", input, <<i - 1, i - 1>>)
          /\ UNCHANGED <<prePreviewSnapshot, showRegions, file>>

NextDisplays ==
    \/ GrabOpBegin
    \/ EditDisplay

SpecDisplays == InitDisplays /\ [][NextDisplays]_vars

\* C36: the layout trees held for two different displays are distinct
\* objects, also when both fall back to the default layout at the start of
\* a window grab: after the grab has begun each display's tree is laid out
\* on its own work area
C36_DisplayTreesDistinct ==
    /\ \A i, j \in DOMAIN layouts :
          (i # j /\ layouts[i] # <<>> /\ layouts[j] # <<>>) => layouts[i] # layouts[j]
    /\ event.handler = "grab-op-begin"
       => \A i \in DOMAIN layouts : objects[layouts[i][1]].rect = MonitorWorkAreas[i]

\* C37: in any interleaving of ResizeOperation and PreviewSplitOperation
\* events, once a resize has been stopped no node is resizing until the
\* next primary button press of the ResizeOperation; a preview cancel does
\* not make a node resizing again
C37_ResizingOnlyStartsOnPress ==
    [][
       (NoneResizing(tree) /\ ~NoneResizing(tree'))
       => (event'.handler = "Resize.onButtonPress" /\ event'.input = "primary")
      ]_vars

\* C38: every child in the children list of a node of the tree has that
\* node as its parent, and the root's parent is null
C38_ParentsConsistent ==
    \A p \in Paths(tree) :
       GetNode(tree, p).parent = IF p = <<>> THEN "null" ELSE "owner"

\* C39: after every event processed by the PreviewSplitOperation the
\* rollback snapshot is non-null if and only if exactly one node of the
\* tree has isPreview
PreviewNodes(t) == {p \in Paths(t) : GetNode(t, p).isPreview}

C39_SnapshotIffPreview ==
    event.handler \in {"Preview.onMotion", "Preview.onKeyPress",
                       "Preview.onKeyRelease", "Preview.onButtonPress"}
    => ((prePreviewSnapshot # <<>>) <=> (Cardinality(PreviewNodes(tree)) = 1))

\* ------------------------------------------------------------------------
\* A layout that is resized, given margins and then snapped to

\* on the divider between the columns, 110 and 30 pixels from the left edge
NarrowPointers == {<<500, 200>>, <<110, 200>>, <<30, 200>>}

\* in the left and in the right column
RegionPointers == {<<20, 200>>, <<750, 600>>}

NextRegions ==
    \/ ResizeButtonPress(NarrowPointers)
    \/ ResizeButtonRelease(NarrowPointers)
    \/ ResizeMotion(NarrowPointers)
    \/ MarginsKeyPressClamped({"Page_Up", "Page_Down"})
    \/ SnappingMotion(RegionPointers)
    \/ SnappingCancelled

SpecRegions == Init /\ [][NextRegions]_vars

\* C40: for a tree that passes validateRects() and whose margins lie in
\* [0, 20], the rectangle currentSnapToRect() returns for a marked leaf has
\* strictly positive width and height and lies inside the leaf's rectangle
Inside(inner, outer) ==
    /\ inner.x >= outer.x
    /\ inner.y >= outer.y
    /\ inner.x + inner.width <= outer.x + outer.width
    /\ inner.y + inner.height <= outer.y + outer.height

C40_SnapRectInsideLeaf ==
    (/\ validateRects(tree)
     /\ \A p \in Paths(tree) : GetNode(tree, p).margin \in 0..20)
    => \A p \in SnappingDestinations(tree) :
          /\ isLeaf(GetNode(tree, p))
          /\ currentSnapToRect(tree) # <<>>
          /\ currentSnapToRect(tree)[1].width > 0
          /\ currentSnapToRect(tree)[1].height > 0
          /\ Inside(currentSnapToRect(tree)[1], GetNode(tree, p).rect)

\* the marked leaf is 110 wide, the narrowest validateRects() accepts, and
\* has the largest margin
C40_Witness ==
    /\ validateRects(tree)
    /\ \E p \in SnappingDestinations(tree) :
          /\ GetNode(tree, p).rect.width = 110
          /\ GetNode(tree, p).margin = 20
          /\ currentSnapToRect(tree) = <<Rect(GetNode(tree, p).rect.x + 20,
                                              GetNode(tree, p).rect.y + 20,
                                              70, GetNode(tree, p).rect.height - 40)>>
====
